---- MODULE Spec2Model ----
(***************************************************************************)
(* Verification model of the diff and review-context engine of            *)
(* local-differ (src/services/contextGenerator.ts).                        *)
(*                                                                         *)
(* A file content is a JavaScript string, modelled as a sequence of        *)
(* one-character strings; "\n" is the newline character.  A line is the    *)
(* sequence of characters between two newlines.  Line numbers shown to the *)
(* user are 1-based, the indices stored in the edit script are 0-based.    *)
(***************************************************************************)
EXTENDS Integers, Sequences, FiniteSets, TLC

(* ----------------------------- bounds ---------------------------------- *)

\* longest file content, in characters
MaxLen == 5
\* largest contextLines handed to generateUnifiedDiff
MaxContext == 1
\* longest file content handed to generateContextMarkdown, in characters
MdLen == 3
\* most line comments on a file
MaxComments == 2
\* largest startLine of a line comment
MaxLine == 2
\* longest content of a file rendered twice in a row, in characters
RepeatLen == 2
\* longest content handed to getContextAroundLine, in characters
CtxLen == 5
\* how far lineNum may lie before the first line and after the last possible one
LinePad == 2

\* characters a content is made of
Chars == {"a", "\n"}

RECURSIVE SeqsUpTo(_, _)
SeqsUpTo(S, n) ==
  IF n = 0 THEN {<<>>}
  ELSE LET shorter == SeqsUpTo(S, n - 1)
       IN shorter \cup {Append(s, x) : s \in {t \in shorter : Len(t) = n - 1}, x \in S}

Contents == SeqsUpTo(Chars, MaxLen)
MdContents == SeqsUpTo(Chars, MdLen)
CtxContents == SeqsUpTo(Chars, CtxLen)
RepeatContents == SeqsUpTo(Chars, RepeatLen)
\* the line numbers handed to getContextAroundLine: any integer near the file
LineNums == (0 - LinePad)..(CtxLen + 1 + LinePad)

\* the line comments a file can carry: single-line comments on either side,
\* the id of a comment being its position in the list as given
Anchors == [side : {"old", "new"}, startLine : 1..MaxLine]
LineCommentLists ==
  {[i \in 1..Len(as) |->
      [id |-> i, startLine |-> as[i].startLine, endLine |-> as[i].startLine,
       side |-> as[i].side, text |-> "note", lineContents |-> <<>>]] :
   as \in SeqsUpTo(Anchors, MaxComments)}

\* how far the line count of a rewritten file may lie from the preview limit
PreviewPad == 2
\* most files of a review
MaxFiles == 2
\* most lines of a content handed to getStructuralChanges
MaxDecls == 2
\* the lines of a file long enough for two hunks under the default context
HunkFileLines == 9

\* lines joined by newlines: the content whose split is lines (joined by
\* halves, which keeps the recursion shallow for a long file)
RECURSIVE joinLines(_)
joinLines(lines) ==
  IF Len(lines) = 0 THEN <<>>
  ELSE IF Len(lines) = 1 THEN lines[1]
  ELSE LET half == Len(lines) \div 2
       IN joinLines(SubSeq(lines, 1, half)) \o <<"\n">>
          \o joinLines(SubSeq(lines, half + 1, Len(lines)))

\* the long contents: HunkFileLines lines "a", none of them blank, the first
\* one blank, or the last one blank
LongContents ==
  {joinLines([k \in 1..HunkFileLines |->
                IF (k = 1 /\ blank = "first") \/ (k = HunkFileLines /\ blank = "last")
                THEN <<>> ELSE <<"a">>]) :
     blank \in {"none", "first", "last"}}

\* the line comments of a long file: on either side, on any line of the file
\* or on the line after its last
LongAnchors == [side : {"old", "new"}, startLine : 1..(HunkFileLines + 1)]
LongCommentLists ==
  {[i \in 1..Len(as) |->
      [id |-> i, startLine |-> as[i].startLine, endLine |-> as[i].startLine,
       side |-> as[i].side, text |-> "note", lineContents |-> <<>>]] :
   as \in SeqsUpTo(LongAnchors, MaxComments)}

\* the lines of the contents handed to getStructuralChanges: the functions foo
\* and bar, declared as TypeScript does, the struct foo, declared as Rust does
\* and indented, and a line that declares nothing
DeclLines ==
  {<<"f", "u", "n", "c", "t", "i", "o", "n", " ", "f", "o", "o">>,
   <<"f", "u", "n", "c", "t", "i", "o", "n", " ", "b", "a", "r">>,
   <<" ", "s", "t", "r", "u", "c", "t", " ", "f", "o", "o">>,
   <<"x">>}
DeclContents == {joinLines(ls) : ls \in SeqsUpTo(DeclLines, MaxDecls)}

\* language tags: two the language detector knows, and the tag of an unknown
\* file type
Languages == {"typescript", "rust", "text"}

\* the reviews of several files: each file has a plain path or a path with a
\* colon in it, is staged or not, and carries a note or nothing
FilePaths == {<<"f">>, <<"d", ":", "f">>}
FileComments ==
  [filePath : FilePaths, staged : BOOLEAN, generalComment : {"", "note"},
   lineComments : {<<>>}]
FileCommentLists == SeqsUpTo(FileComments, MaxFiles)

(* ----------------------------- helpers --------------------------------- *)

Max2(a, b) == IF a >= b THEN a ELSE b
Min2(a, b) == IF a <= b THEN a ELSE b

\* String.prototype.split(sep) for a one-character separator: the pieces
\* before a separator followed by the pieces after it, whichever separator is
\* taken; taking the one nearest the middle keeps the evaluation shallow on a
\* long string
RECURSIVE split(_, _)
split(s, sep) ==
  IF \A k \in 1..Len(s) : s[k] # sep
  THEN <<s>>
  ELSE LET mid == (Len(s) + 1) \div 2
           k == IF \E q \in mid..Len(s) : s[q] = sep
                THEN CHOOSE q \in mid..Len(s) :
                       s[q] = sep /\ \A r \in mid..(q - 1) : s[r] # sep
                ELSE CHOOSE q \in 1..(mid - 1) :
                       s[q] = sep /\ \A r \in (q + 1)..(mid - 1) : s[r] # sep
       IN split(SubSeq(s, 1, k - 1), sep) \o split(SubSeq(s, k + 1, Len(s)), sep)

\* content.split('\n')
splitLines(content) == split(content, "\n")

\* content ? content.split('\n') : []
linesOrNone(content) == IF content = <<>> THEN <<>> ELSE splitLines(content)

(* ----------------------------- computeDiff ----------------------------- *)

\* the LCS table dp[i][j] over the prefixes of the two line sequences
lcsTable(oldLines, newLines) ==
  LET m == Len(oldLines)
      n == Len(newLines)
      dp[i \in 0..m, j \in 0..n] ==
        IF i = 0 \/ j = 0 THEN 0
        ELSE IF oldLines[i] = newLines[j] THEN dp[i - 1, j - 1] + 1
        ELSE Max2(dp[i - 1, j], dp[i, j - 1])
  IN dp

\* backtrack with the tie-break reversed: it walks towards the smaller table value
RECURSIVE backtrackWrongTie(_, _, _, _, _)
backtrackWrongTie(oldLines, newLines, dp, i, j) ==
  IF ~(i > 0 \/ j > 0) THEN <<>>
  ELSE IF i > 0 /\ j > 0 /\ oldLines[i] = newLines[j]
  THEN Append(backtrackWrongTie(oldLines, newLines, dp, i - 1, j - 1),
              [type |-> "equal", oldIdx |-> i - 1, newIdx |-> j - 1, line |-> oldLines[i]])
  ELSE IF j > 0 /\ (i = 0 \/ dp[i, j - 1] <= dp[i - 1, j])
  THEN Append(backtrackWrongTie(oldLines, newLines, dp, i, j - 1),
              [type |-> "insert", oldIdx |-> i - 1, newIdx |-> j - 1, line |-> newLines[j]])
  ELSE Append(backtrackWrongTie(oldLines, newLines, dp, i - 1, j),
              [type |-> "delete", oldIdx |-> i - 1, newIdx |-> -1, line |-> oldLines[i]])

\* backtrack that prefers the delete when the two table values tie
RECURSIVE backtrackPreferDelete(_, _, _, _, _)
backtrackPreferDelete(oldLines, newLines, dp, i, j) ==
  IF ~(i > 0 \/ j > 0) THEN <<>>
  ELSE IF i > 0 /\ j > 0 /\ oldLines[i] = newLines[j]
  THEN Append(backtrackPreferDelete(oldLines, newLines, dp, i - 1, j - 1),
              [type |-> "equal", oldIdx |-> i - 1, newIdx |-> j - 1, line |-> oldLines[i]])
  ELSE IF j > 0 /\ (i = 0 \/ dp[i, j - 1] > dp[i - 1, j])
  THEN Append(backtrackPreferDelete(oldLines, newLines, dp, i, j - 1),
              [type |-> "insert", oldIdx |-> i - 1, newIdx |-> j - 1, line |-> newLines[j]])
  ELSE Append(backtrackPreferDelete(oldLines, newLines, dp, i - 1, j),
              [type |-> "delete", oldIdx |-> i - 1, newIdx |-> -1, line |-> oldLines[i]])

\* one pass of the backtracking loop at (i, j), with i > 0 or j > 0: the op it
\* unshifts and the cell it moves to
backtrackStep(oldLines, newLines, dp, i, j) ==
  IF i > 0 /\ j > 0 /\ oldLines[i] = newLines[j]
  THEN [op |-> [type |-> "equal", oldIdx |-> i - 1, newIdx |-> j - 1, line |-> oldLines[i]],
        i |-> i - 1, j |-> j - 1]
  ELSE IF j > 0 /\ (i = 0 \/ dp[i, j - 1] >= dp[i - 1, j])
  THEN [op |-> [type |-> "insert", oldIdx |-> i - 1, newIdx |-> j - 1, line |-> newLines[j]],
        i |-> i, j |-> j - 1]
  ELSE [op |-> [type |-> "delete", oldIdx |-> i - 1, newIdx |-> -1, line |-> oldLines[i]],
        i |-> i - 1, j |-> j]

\* up to n passes of the backtracking loop from (i, j): the ops unshifted, in
\* the order the array holds them, and the cell reached.  The passes are run by
\* halves, which keeps the evaluation shallow on a long file.
RECURSIVE backtrackPasses(_, _, _, _, _, _)
backtrackPasses(oldLines, newLines, dp, i, j, n) ==
  IF n = 0 \/ ~(i > 0 \/ j > 0) THEN [ops |-> <<>>, i |-> i, j |-> j]
  ELSE IF n = 1
  THEN LET step == backtrackStep(oldLines, newLines, dp, i, j)
       IN [ops |-> <<step.op>>, i |-> step.i, j |-> step.j]
  ELSE LET first == backtrackPasses(oldLines, newLines, dp, i, j, n \div 2)
           rest == backtrackPasses(oldLines, newLines, dp, first.i, first.j,
                                   n - (n \div 2))
       IN [ops |-> rest.ops \o first.ops, i |-> rest.i, j |-> rest.j]

\* the backtracking loop, which ends after i + j passes at most; the code
\* unshifts, so the op found at (i, j) comes after the ops found later in the walk
backtrack(oldLines, newLines, dp, i, j) ==
  backtrackPasses(oldLines, newLines, dp, i, j, i + j).ops

\* computeDiff that pairs the last lines without comparing them
computeDiffNoCompare(oldLines, newLines) ==
  LET RECURSIVE walk(_, _)
      walk(i, j) ==
        IF ~(i > 0 \/ j > 0) THEN <<>>
        ELSE IF i > 0 /\ j > 0
        THEN Append(walk(i - 1, j - 1),
               [type |-> "equal", oldIdx |-> i - 1, newIdx |-> j - 1, line |-> oldLines[i]])
        ELSE IF j > 0
        THEN Append(walk(i, j - 1),
               [type |-> "insert", oldIdx |-> i - 1, newIdx |-> j - 1, line |-> newLines[j]])
        ELSE Append(walk(i - 1, j),
               [type |-> "delete", oldIdx |-> i - 1, newIdx |-> -1, line |-> oldLines[i]])
  IN walk(Len(oldLines), Len(newLines))

computeDiff(oldLines, newLines) ==
  backtrack(oldLines, newLines, lcsTable(oldLines, newLines),
            Len(oldLines), Len(newLines))

(* ----------------------------- createHunks ---------------------------- *)

\* the 0-based indices of the ops that are not 'equal', ascending
changeIndices(changes) ==
  LET RECURSIVE collect(_)
      collect(k) ==
        IF k = 0 THEN <<>>
        ELSE IF changes[k].type # "equal" THEN Append(collect(k - 1), k - 1)
        ELSE collect(k - 1)
  IN collect(Len(changes))

\* mergeWindows that forgets the running range when a disjoint window starts
RECURSIVE mergeWindowsDropRange(_, _, _, _, _, _, _)
mergeWindowsDropRange(idxs, len, contextLines, i, hunkStart, hunkEnd, hunkRanges) ==
  IF i > Len(idxs) THEN Append(hunkRanges, <<hunkStart, hunkEnd>>)
  ELSE LET nextStart == Max2(0, idxs[i] - contextLines)
           nextEnd == Min2(len - 1, idxs[i] + contextLines)
       IN IF nextStart <= hunkEnd + 1
          THEN mergeWindowsDropRange(idxs, len, contextLines, i + 1, hunkStart, nextEnd,
                                     hunkRanges)
          ELSE mergeWindowsDropRange(idxs, len, contextLines, i + 1, nextStart, nextEnd,
                                     hunkRanges)

\* mergeWindows that merges overlapping windows only, not adjacent ones
RECURSIVE mergeWindowsNoAdjacent(_, _, _, _, _, _, _)
mergeWindowsNoAdjacent(idxs, len, contextLines, i, hunkStart, hunkEnd, hunkRanges) ==
  IF i > Len(idxs) THEN Append(hunkRanges, <<hunkStart, hunkEnd>>)
  ELSE LET nextStart == Max2(0, idxs[i] - contextLines)
           nextEnd == Min2(len - 1, idxs[i] + contextLines)
       IN IF nextStart <= hunkEnd
          THEN mergeWindowsNoAdjacent(idxs, len, contextLines, i + 1, hunkStart, nextEnd,
                                      hunkRanges)
          ELSE mergeWindowsNoAdjacent(idxs, len, contextLines, i + 1, nextStart, nextEnd,
                                      Append(hunkRanges, <<hunkStart, hunkEnd>>))

\* mergeWindows that pads the next window on the right only
RECURSIVE mergeWindowsNoLeftPad(_, _, _, _, _, _, _)
mergeWindowsNoLeftPad(idxs, len, contextLines, i, hunkStart, hunkEnd, hunkRanges) ==
  IF i > Len(idxs) THEN Append(hunkRanges, <<hunkStart, hunkEnd>>)
  ELSE LET nextStart == Max2(0, idxs[i])
           nextEnd == Min2(len - 1, idxs[i] + contextLines)
       IN IF nextStart <= hunkEnd + 1
          THEN mergeWindowsNoLeftPad(idxs, len, contextLines, i + 1, hunkStart, nextEnd,
                                     hunkRanges)
          ELSE mergeWindowsNoLeftPad(idxs, len, contextLines, i + 1, nextStart, nextEnd,
                                     Append(hunkRanges, <<hunkStart, hunkEnd>>))

\* the loop that merges the padded windows of the changes into [start, end]
\* ranges of op indices; i is the (1-based) position of the next change index
RECURSIVE mergeWindows(_, _, _, _, _, _, _)
mergeWindows(idxs, len, contextLines, i, hunkStart, hunkEnd, hunkRanges) ==
  IF i > Len(idxs) THEN Append(hunkRanges, <<hunkStart, hunkEnd>>)
  ELSE LET nextStart == Max2(0, idxs[i] - contextLines)
           nextEnd == Min2(len - 1, idxs[i] + contextLines)
       IN IF nextStart <= hunkEnd + 1
          THEN mergeWindows(idxs, len, contextLines, i + 1, hunkStart, nextEnd, hunkRanges)
          ELSE mergeWindows(idxs, len, contextLines, i + 1, nextStart, nextEnd,
                            Append(hunkRanges, <<hunkStart, hunkEnd>>))

\* the [start, end] op-index ranges of the hunks (0-based, inclusive)
hunkRangesOf(changes, contextLines) ==
  LET idxs == changeIndices(changes)
  IN IF Len(idxs) = 0 THEN <<>>
     ELSE mergeWindows(idxs, Len(changes), contextLines, 2,
                       Max2(0, idxs[1] - contextLines),
                       Min2(Len(changes) - 1, idxs[1] + contextLines),
                       <<>>)

\* lineNumsBefore that advances the old counter on every op
RECURSIVE lineNumsBeforeAllOld(_, _)
lineNumsBeforeAllOld(changes, start) ==
  IF start = 0 THEN [old |-> 1, new |-> 1]
  ELSE LET before == lineNumsBeforeAllOld(changes, start - 1)
           c == changes[start]
       IN [old |-> before.old + 1,
           new |-> IF c.type \in {"equal", "insert"} THEN before.new + 1 ELSE before.new]

\* the line counters after the loop over the ops before index start
RECURSIVE lineNumsBefore(_, _)
lineNumsBefore(changes, start) ==
  IF start = 0 THEN [old |-> 1, new |-> 1]
  ELSE LET before == lineNumsBefore(changes, start - 1)
           c == changes[start]
       IN [old |-> IF c.type \in {"equal", "delete"} THEN before.old + 1 ELSE before.old,
           new |-> IF c.type \in {"equal", "insert"} THEN before.new + 1 ELSE before.new]

\* the loop over hunkChanges: acc carries the counters, the counts and the lines
RECURSIVE walkHunk(_, _, _)
walkHunk(hunkChanges, k, acc) ==
  IF k > Len(hunkChanges) THEN acc
  ELSE LET change == hunkChanges[k]
       IN IF change.type = "equal"
          THEN walkHunk(hunkChanges, k + 1,
                 [oldLineNum |-> acc.oldLineNum + 1, newLineNum |-> acc.newLineNum + 1,
                  oldCount |-> acc.oldCount + 1, newCount |-> acc.newCount + 1,
                  lines |-> Append(acc.lines,
                     [type |-> "context", content |-> change.line,
                      oldLineNum |-> acc.oldLineNum, newLineNum |-> acc.newLineNum])])
          ELSE IF change.type = "delete"
          THEN walkHunk(hunkChanges, k + 1,
                 [oldLineNum |-> acc.oldLineNum + 1, newLineNum |-> acc.newLineNum,
                  oldCount |-> acc.oldCount + 1, newCount |-> acc.newCount,
                  lines |-> Append(acc.lines,
                     [type |-> "remove", content |-> change.line,
                      oldLineNum |-> acc.oldLineNum])])
          ELSE walkHunk(hunkChanges, k + 1,
                 [oldLineNum |-> acc.oldLineNum, newLineNum |-> acc.newLineNum + 1,
                  oldCount |-> acc.oldCount, newCount |-> acc.newCount + 1,
                  lines |-> Append(acc.lines,
                     [type |-> "add", content |-> change.line,
                      newLineNum |-> acc.newLineNum])])

\* the DiffHunk of one op-index range
buildHunk(changes, range) ==
  LET start == range[1]
      end == range[2]
      hunkChanges == SubSeq(changes, start + 1, end + 1)
      nums == lineNumsBefore(changes, start)
      walked == walkHunk(hunkChanges, 1,
                  [oldLineNum |-> nums.old, newLineNum |-> nums.new,
                   oldCount |-> 0, newCount |-> 0, lines |-> <<>>])
  IN [oldStart |-> nums.old, oldCount |-> walked.oldCount,
      newStart |-> nums.new, newCount |-> walked.newCount,
      lines |-> walked.lines]

createHunks(changes, oldLines, newLines, contextLines) ==
  LET ranges == hunkRangesOf(changes, contextLines)
  IN [h \in 1..Len(ranges) |-> buildHunk(changes, ranges[h])]

\* contextLines when the caller does not pass it
DefaultContextLines == 3

generateUnifiedDiff(oldC, newC, contextLines) ==
  LET oldLines == splitLines(oldC)
      newLines == splitLines(newC)
  IN createHunks(computeDiff(oldLines, newLines), oldLines, newLines, contextLines)

(* ----------------------------- calculateDiffStats --------------------- *)

\* A JavaScript number that is a quotient of integers is kept as the fraction
\* num / den with den > 0; comparisons cross-multiply.
Frac(n, d) == [num |-> n, den |-> d]
FracGt(x, y) == x.num * y.den > y.num * x.den
FracLt(x, y) == x.num * y.den < y.num * x.den
FracEq(x, y) == x.num * y.den = y.num * x.den

\* the number of ops of one type in an edit script
countType(changes, t) == Cardinality({k \in 1..Len(changes) : changes[k].type = t})

\* calculateDiffStats with >= 60 in place of > 60
calculateDiffStatsAtLeast(oldC, newC) ==
  LET oldLines == IF oldC # <<>> THEN Len(splitLines(oldC)) ELSE 0
      newLines == IF newC # <<>> THEN Len(splitLines(newC)) ELSE 0
      diff == computeDiff(linesOrNone(oldC), linesOrNone(newC))
      addedLines == countType(diff, "insert")
      removedLines == countType(diff, "delete")
      totalChanged == addedLines + removedLines
      maxLines == Max2(Max2(oldLines, newLines), 1)
      changedPercent == Frac(totalChanged * 100, maxLines)
      sizeRatio == IF oldLines > 0 THEN Frac(newLines, oldLines) ELSE Frac(newLines, 1)
      isMajorRewrite == \/ ~FracLt(changedPercent, Frac(60, 1))
                        \/ FracGt(sizeRatio, Frac(3, 1))
                        \/ FracLt(sizeRatio, Frac(33, 100))
  IN [oldLines |-> oldLines, newLines |-> newLines,
      addedLines |-> addedLines, removedLines |-> removedLines,
      changedPercent |-> changedPercent, isMajorRewrite |-> isMajorRewrite]

\* calculateDiffStats whose percentage counts the added lines only
calculateDiffStatsAddedOnly(oldC, newC) ==
  LET oldLines == IF oldC # <<>> THEN Len(splitLines(oldC)) ELSE 0
      newLines == IF newC # <<>> THEN Len(splitLines(newC)) ELSE 0
      diff == computeDiff(linesOrNone(oldC), linesOrNone(newC))
      addedLines == countType(diff, "insert")
      removedLines == countType(diff, "delete")
      totalChanged == addedLines
      maxLines == Max2(Max2(oldLines, newLines), 1)
      changedPercent == Frac(totalChanged * 100, maxLines)
      sizeRatio == IF oldLines > 0 THEN Frac(newLines, oldLines) ELSE Frac(newLines, 1)
      isMajorRewrite == \/ FracGt(changedPercent, Frac(60, 1))
                        \/ FracGt(sizeRatio, Frac(3, 1))
                        \/ FracLt(sizeRatio, Frac(33, 100))
  IN [oldLines |-> oldLines, newLines |-> newLines,
      addedLines |-> addedLines, removedLines |-> removedLines,
      changedPercent |-> changedPercent, isMajorRewrite |-> isMajorRewrite]

calculateDiffStats(oldC, newC) ==
  LET oldLines == IF oldC # <<>> THEN Len(splitLines(oldC)) ELSE 0
      newLines == IF newC # <<>> THEN Len(splitLines(newC)) ELSE 0
      diff == computeDiff(linesOrNone(oldC), linesOrNone(newC))
      addedLines == countType(diff, "insert")
      removedLines == countType(diff, "delete")
      totalChanged == addedLines + removedLines
      maxLines == Max2(Max2(oldLines, newLines), 1)
      changedPercent == Frac(totalChanged * 100, maxLines)
      sizeRatio == IF oldLines > 0 THEN Frac(newLines, oldLines) ELSE Frac(newLines, 1)
      isMajorRewrite == \/ FracGt(changedPercent, Frac(60, 1))
                        \/ FracGt(sizeRatio, Frac(3, 1))
                        \/ FracLt(sizeRatio, Frac(33, 100))
  IN [oldLines |-> oldLines, newLines |-> newLines,
      addedLines |-> addedLines, removedLines |-> removedLines,
      changedPercent |-> changedPercent, isMajorRewrite |-> isMajorRewrite]

\* the value of stats before any call
NoStats == [oldLines |-> 0, newLines |-> 0, addedLines |-> 0, removedLines |-> 0,
            changedPercent |-> Frac(0, 1), isMajorRewrite |-> FALSE]

(* ----------------------------- getStructuralChanges ------------------- *)

(***************************************************************************)
(* The declaration patterns are regular expressions anchored at the start  *)
(* of the trimmed line.  A pattern is kept as the items before its capture *)
(* group (\w+), the items after it, and the kind it reports.  An item is a *)
(* literal, \s+ (ws1), \s* (ws0), an optional literal followed by \s+     *)
(* (opt), the optional generic list of impl, or the optional receiver of   *)
(* func.  No optional item can be confused with the item after it, so      *)
(* matching left to right, each item taking all it can, decides the match. *)
(***************************************************************************)

\* the characters \s matches, among those a line can hold
Whitespace == {" ", "\t", "\r"}

\* the characters \w matches
WordChars ==
  {"a", "b", "c", "d", "e", "f", "g", "h", "i", "j", "k", "l", "m", "n", "o", "p", "q", "r", "s", "t", "u", "v", "w", "x", "y", "z"}
  \cup {"A", "B", "C", "D", "E", "F", "G", "H", "I", "J", "K", "L", "M", "N", "O", "P", "Q", "R", "S", "T", "U", "V", "W", "X", "Y", "Z"}
  \cup {"0", "1", "2", "3", "4", "5", "6", "7", "8", "9", "_"}

\* String.prototype.trim
RECURSIVE trim(_)
trim(s) ==
  IF s = <<>> THEN s
  ELSE IF s[1] \in Whitespace THEN trim(Tail(s))
  ELSE IF s[Len(s)] \in Whitespace THEN trim(SubSeq(s, 1, Len(s) - 1))
  ELSE s

\* the position after the longest run of characters of S that starts at p
RECURSIVE skipWhile(_, _, _)
skipWhile(s, p, S) ==
  IF p <= Len(s) /\ s[p] \in S THEN skipWhile(s, p + 1, S) ELSE p

\* the position after the longest run of characters other than c that starts at p
RECURSIVE skipUntil(_, _, _)
skipUntil(s, p, c) ==
  IF p <= Len(s) /\ s[p] # c THEN skipUntil(s, p + 1, c) ELSE p

\* the position after the literal w at p, 0 when w is not there
matchLit(s, p, w) ==
  IF p + Len(w) - 1 <= Len(s) /\ SubSeq(s, p, p + Len(w) - 1) = w THEN p + Len(w) ELSE 0

\* q when the match has moved on from p, 0 when it has not
movedFrom(p, q) == IF q > p THEN q ELSE 0

\* the position after one or more characters of S at p, 0 when there is none
matchSome(s, p, S) == movedFrom(p, skipWhile(s, p, S))

\* a match that has failed (position 0) stays failed; otherwise the literal,
\* the characters of S, or the characters up to c must come next
thenLit(s, q, w) == IF q = 0 THEN 0 ELSE matchLit(s, q, w)
thenSome(s, q, S) == IF q = 0 THEN 0 ELSE matchSome(s, q, S)
thenUntil(s, q, c) == IF q = 0 THEN 0 ELSE movedFrom(q, skipUntil(s, q, c))

\* an optional group: the position after it, or p when it does not match
orSkip(p, r) == IF r = 0 THEN p ELSE r

\* the position after item at p, 0 when the item does not match there
matchItem(s, p, item) ==
  CASE item.t = "lit" -> matchLit(s, p, item.s)
    [] item.t = "ws1" -> matchSome(s, p, Whitespace)
    [] item.t = "ws0" -> skipWhile(s, p, Whitespace)
    [] item.t = "opt" ->
         orSkip(p, thenSome(s, matchLit(s, p, item.s), Whitespace))
    [] item.t = "generic" ->
         orSkip(p, thenLit(s, thenUntil(s, matchLit(s, p, <<"<">>), ">"), <<">">>))
    [] item.t = "receiver" ->
         orSkip(p, thenSome(s, thenLit(s, thenUntil(s, matchLit(s, p, <<"(">>), ")"),
                                       <<")">>),
                            Whitespace))

\* the position after the items, matched one after the other from p
RECURSIVE matchItems(_, _, _)
matchItems(s, p, items) ==
  IF p = 0 \/ items = <<>> THEN p
  ELSE matchItems(s, matchItem(s, p, Head(items)), Tail(items))

\* the result of a match whose name is s[nameStart..nameEnd - 1]: the items
\* after the name must follow it
matchAfterName(s, post, nameStart, nameEnd) ==
  IF matchItems(s, nameEnd, post) = 0 THEN [matched |-> FALSE, name |-> <<>>]
  ELSE [matched |-> TRUE, name |-> SubSeq(s, nameStart, nameEnd - 1)]

\* the result of a match whose name starts at nameStart
matchName(s, post, nameStart) ==
  matchAfterName(s, post, nameStart, thenSome(s, nameStart, WordChars))

\* trimmed.match(regex): whether the pattern matches, and match[1]
matchPattern(s, pattern) ==
  matchName(s, pattern.post, matchItems(s, 1, pattern.pre))

\* the patterns of extractStructuralElements, in the order of the list
patterns ==
  <<
    [pre |-> <<[t |-> "opt", s |-> <<"e", "x", "p", "o", "r", "t">>],
              [t |-> "opt", s |-> <<"a", "s", "y", "n", "c">>],
              [t |-> "lit", s |-> <<"f", "u", "n", "c", "t", "i", "o", "n">>],
              [t |-> "ws1", s |-> <<>>]>>,
     post |-> <<>>,
     type |-> "function"],
    [pre |-> <<[t |-> "opt", s |-> <<"e", "x", "p", "o", "r", "t">>],
              [t |-> "lit", s |-> <<"c", "o", "n", "s", "t">>],
              [t |-> "ws1", s |-> <<>>]>>,
     post |-> <<[t |-> "ws0", s |-> <<>>],
              [t |-> "lit", s |-> <<"=">>],
              [t |-> "ws0", s |-> <<>>],
              [t |-> "opt", s |-> <<"a", "s", "y", "n", "c">>],
              [t |-> "lit", s |-> <<"(">>]>>,
     type |-> "function"],
    [pre |-> <<[t |-> "opt", s |-> <<"e", "x", "p", "o", "r", "t">>],
              [t |-> "lit", s |-> <<"c", "o", "n", "s", "t">>],
              [t |-> "ws1", s |-> <<>>]>>,
     post |-> <<[t |-> "ws0", s |-> <<>>],
              [t |-> "lit", s |-> <<"=">>],
              [t |-> "ws0", s |-> <<>>],
              [t |-> "opt", s |-> <<"a", "s", "y", "n", "c">>],
              [t |-> "lit", s |-> <<"f", "u", "n", "c", "t", "i", "o", "n">>]>>,
     type |-> "function"],
    [pre |-> <<[t |-> "opt", s |-> <<"e", "x", "p", "o", "r", "t">>],
              [t |-> "lit", s |-> <<"c", "l", "a", "s", "s">>],
              [t |-> "ws1", s |-> <<>>]>>,
     post |-> <<>>,
     type |-> "class"],
    [pre |-> <<[t |-> "opt", s |-> <<"e", "x", "p", "o", "r", "t">>],
              [t |-> "lit", s |-> <<"i", "n", "t", "e", "r", "f", "a", "c", "e">>],
              [t |-> "ws1", s |-> <<>>]>>,
     post |-> <<>>,
     type |-> "interface"],
    [pre |-> <<[t |-> "opt", s |-> <<"e", "x", "p", "o", "r", "t">>],
              [t |-> "lit", s |-> <<"t", "y", "p", "e">>],
              [t |-> "ws1", s |-> <<>>]>>,
     post |-> <<[t |-> "ws0", s |-> <<>>],
              [t |-> "lit", s |-> <<"=">>]>>,
     type |-> "type"],
    [pre |-> <<[t |-> "opt", s |-> <<"e", "x", "p", "o", "r", "t">>],
              [t |-> "lit", s |-> <<"e", "n", "u", "m">>],
              [t |-> "ws1", s |-> <<>>]>>,
     post |-> <<>>,
     type |-> "enum"],
    [pre |-> <<[t |-> "opt", s |-> <<"p", "u", "b">>],
              [t |-> "lit", s |-> <<"f", "n">>],
              [t |-> "ws1", s |-> <<>>]>>,
     post |-> <<>>,
     type |-> "function"],
    [pre |-> <<[t |-> "opt", s |-> <<"p", "u", "b">>],
              [t |-> "lit", s |-> <<"s", "t", "r", "u", "c", "t">>],
              [t |-> "ws1", s |-> <<>>]>>,
     post |-> <<>>,
     type |-> "struct"],
    [pre |-> <<[t |-> "opt", s |-> <<"p", "u", "b">>],
              [t |-> "lit", s |-> <<"e", "n", "u", "m">>],
              [t |-> "ws1", s |-> <<>>]>>,
     post |-> <<>>,
     type |-> "enum"],
    [pre |-> <<[t |-> "opt", s |-> <<"p", "u", "b">>],
              [t |-> "lit", s |-> <<"t", "r", "a", "i", "t">>],
              [t |-> "ws1", s |-> <<>>]>>,
     post |-> <<>>,
     type |-> "trait"],
    [pre |-> <<[t |-> "lit", s |-> <<"i", "m", "p", "l">>],
              [t |-> "generic", s |-> <<>>],
              [t |-> "ws1", s |-> <<>>]>>,
     post |-> <<>>,
     type |-> "impl"],
    [pre |-> <<[t |-> "opt", s |-> <<"a", "s", "y", "n", "c">>],
              [t |-> "lit", s |-> <<"d", "e", "f">>],
              [t |-> "ws1", s |-> <<>>]>>,
     post |-> <<>>,
     type |-> "function"],
    [pre |-> <<[t |-> "lit", s |-> <<"c", "l", "a", "s", "s">>],
              [t |-> "ws1", s |-> <<>>]>>,
     post |-> <<>>,
     type |-> "class"],
    [pre |-> <<[t |-> "lit", s |-> <<"f", "u", "n", "c">>],
              [t |-> "ws1", s |-> <<>>],
              [t |-> "receiver", s |-> <<>>]>>,
     post |-> <<>>,
     type |-> "function"],
    [pre |-> <<[t |-> "lit", s |-> <<"t", "y", "p", "e">>],
              [t |-> "ws1", s |-> <<>>]>>,
     post |-> <<[t |-> "ws1", s |-> <<>>],
              [t |-> "lit", s |-> <<"s", "t", "r", "u", "c", "t">>]>>,
     type |-> "struct"],
    [pre |-> <<[t |-> "lit", s |-> <<"t", "y", "p", "e">>],
              [t |-> "ws1", s |-> <<>>]>>,
     post |-> <<[t |-> "ws1", s |-> <<>>],
              [t |-> "lit", s |-> <<"i", "n", "t", "e", "r", "f", "a", "c", "e">>]>>,
     type |-> "interface"]
  >>

\* Map.prototype.set on a map kept as its entries in insertion order: a name
\* already there keeps its place and takes the new kind
mapSet(elements, name, type) ==
  IF \E i \in 1..Len(elements) : elements[i].name = name
  THEN [i \in 1..Len(elements) |->
          IF elements[i].name = name THEN [name |-> name, type |-> type]
          ELSE elements[i]]
  ELSE Append(elements, [name |-> name, type |-> type])

\* Map.prototype.has
mapHas(elements, name) == \E i \in 1..Len(elements) : elements[i].name = name

\* the inner loop over the patterns for one line, from pattern q on: the first
\* pattern that matches sets the name and ends the loop, a line no pattern
\* matches sets nothing
RECURSIVE matchFrom(_, _, _, _)
setOrNext(elements, trimmed, list, q, match) ==
  IF match.matched THEN mapSet(elements, match.name, list[q].type)
  ELSE matchFrom(elements, trimmed, list, q + 1)

matchFrom(elements, trimmed, list, q) ==
  IF q > Len(list) THEN elements
  ELSE setOrNext(elements, trimmed, list, q, matchPattern(trimmed, list[q]))

\* one pass of the loop over the lines
matchLine(elements, line) == matchFrom(elements, trim(line), patterns, 1)

\* the loop over the lines first to last, in order.  The range is run by
\* halves, and the map after the first half is compared with the empty map so
\* that it is a computed value when the second half starts: both keep the
\* evaluation shallow on a long file.
RECURSIVE matchLines(_, _, _, _)
matchLinesOn(half, lines, first, last) ==
  IF half = <<>> THEN matchLines(<<>>, lines, first, last)
  ELSE matchLines(half, lines, first, last)

matchLines(elements, lines, first, last) ==
  IF first > last THEN elements
  ELSE IF first = last THEN matchLine(elements, lines[first])
  ELSE matchLinesOn(matchLines(elements, lines, first, (first + last) \div 2),
                    lines, ((first + last) \div 2) + 1, last)

\* the map of the lines of a content
elementsOf(lines) == matchLines(<<>>, lines, 1, Len(lines))

\* the language is a parameter the function never reads
extractStructuralElements(content, language) ==
  IF content = <<>> THEN <<>> ELSE elementsOf(splitLines(content))

\* the entries of a map as changes with the given action
changesOf(elements, action) ==
  [i \in 1..Len(elements) |->
     [type |-> elements[i].type, name |-> elements[i].name, action |-> action]]

\* the two loops of getStructuralChanges over the two maps
changesBetween(oldElements, newElements) ==
  changesOf(SelectSeq(oldElements, LAMBDA e : ~mapHas(newElements, e.name)), "removed")
  \o changesOf(SelectSeq(newElements, LAMBDA e : ~mapHas(oldElements, e.name)), "added")

\* the two loops with an entry compared by name and kind
changesBetweenKind(oldElements, newElements) ==
  changesOf(SelectSeq(oldElements,
                      LAMBDA e : e \notin {newElements[i] : i \in 1..Len(newElements)}),
            "removed")
  \o changesOf(SelectSeq(newElements,
                         LAMBDA e : e \notin {oldElements[i] : i \in 1..Len(oldElements)}),
               "added")

\* getStructuralChanges that also reports a name whose kind has changed
getStructuralChangesKind(oldC, newC, language) ==
  changesBetweenKind(extractStructuralElements(oldC, language),
                     extractStructuralElements(newC, language))

getStructuralChanges(oldC, newC, language) ==
  changesBetween(extractStructuralElements(oldC, language),
                 extractStructuralElements(newC, language))

(* ----------------------------- generateContextMarkdown ---------------- *)

(***************************************************************************)
(* The markdown is the sequence of the lines the function pushes, joined   *)
(* by newlines.  A pushed line is kept as a record: k names the template   *)
(* of the line and the other fields are the values the template            *)
(* interpolates (numbers stay numbers, padStart only formats them).  The   *)
(* line of a comment also carries the id of the LineComment it renders.    *)
(***************************************************************************)

Lit(text) == [k |-> "lit", text |-> text]

\* the line that closes a fenced block; [k |-> "fence"] is the line that opens one
FenceEnd == [k |-> "fenceEnd"]

STATUS_LABELS ==
  [A |-> "Added", D |-> "Deleted", M |-> "Modified", R |-> "Renamed",
   C |-> "Copied", U |-> "Unmerged", T |-> "Type changed"]

getStatusLabel(status) ==
  IF status \in DOMAIN STATUS_LABELS THEN STATUS_LABELS[status] ELSE status

\* the key of a file: filePath, a colon, then the staged flag as true or false
fileKey(filePath, staged) ==
  filePath \o <<":">> \o (IF staged THEN <<"t", "r", "u", "e">> ELSE <<"f", "a", "l", "s", "e">>)

\* a sort that is not stable: comments of equal startLine come out reversed
RECURSIVE sortTiesReversed(_)
sortTiesReversed(lcs) ==
  IF lcs = <<>> THEN <<>>
  ELSE LET n == Len(lcs)
           sorted == sortTiesReversed(SubSeq(lcs, 1, n - 1))
           x == lcs[n]
           k == Cardinality({i \in 1..Len(sorted) : sorted[i].startLine < x.startLine})
       IN SubSeq(sorted, 1, k) \o <<x>> \o SubSeq(sorted, k + 1, Len(sorted))

\* Array.prototype.sort((a, b) => a.startLine - b.startLine): stable, ascending
RECURSIVE sortByStartLine(_)
sortByStartLine(lcs) ==
  IF lcs = <<>> THEN <<>>
  ELSE LET n == Len(lcs)
           sorted == sortByStartLine(SubSeq(lcs, 1, n - 1))
           x == lcs[n]
           k == Cardinality({i \in 1..Len(sorted) : sorted[i].startLine <= x.startLine})
       IN SubSeq(sorted, 1, k) \o <<x>> \o SubSeq(sorted, k + 1, Len(sorted))

\* the concatenation of a sequence of sequences (lines.push(...xs) in a loop)
RECURSIVE flatten(_)
flatten(ss) == IF ss = <<>> THEN <<>> ELSE Head(ss) \o flatten(Tail(ss))

\* the label of a comment: Line startLine, or Lines startLine-endLine
lineLabel(lc) ==
  IF lc.startLine = lc.endLine THEN <<"Line", lc.startLine>>
  ELSE <<"Lines", lc.startLine, lc.endLine>>

\* the default contextSize of getContextAroundLine
ContextSize == 2

\* getContextAroundLine that labels a line with its 0-based index
getContextAroundLineZeroBased(content, lineNum) ==
  LET lines == splitLines(content)
      start == Max2(0, lineNum - 1 - ContextSize)
      end == Min2(Len(lines), lineNum + ContextSize)
  IN [i \in 1..Max2(0, end - start) |->
        LET num == start + i - 1
        IN [k |-> "context", marker |-> IF num = lineNum THEN ">" ELSE " ",
            num |-> num, content |-> lines[start + i]]]

getContextAroundLine(content, lineNum) ==
  LET lines == splitLines(content)
      start == Max2(0, lineNum - 1 - ContextSize)
      end == Min2(Len(lines), lineNum + ContextSize)
  IN [i \in 1..Max2(0, end - start) |->
        LET num == start + i
        IN [k |-> "context", marker |-> IF num = lineNum THEN ">" ELSE " ",
            num |-> num, content |-> lines[num]]]

formatHunk(hunk) ==
  <<[k |-> "hunkHeader", oldStart |-> hunk.oldStart, oldCount |-> hunk.oldCount,
     newStart |-> hunk.newStart, newCount |-> hunk.newCount]>>
  \o [i \in 1..Len(hunk.lines) |->
        LET line == hunk.lines[i]
        IN IF line.type = "add"
           THEN [k |-> "hunkLine", sign |-> "+", num |-> line.newLineNum,
                 content |-> line.content]
           ELSE IF line.type = "remove"
           THEN [k |-> "hunkLine", sign |-> "-", content |-> line.content]
           ELSE [k |-> "hunkLine", sign |-> " ", num |-> line.newLineNum,
                 content |-> line.content]]

\* the lines of a content, each with its 1-based number
numberedLines(lines) ==
  [i \in 1..Len(lines) |-> [k |-> "numbered", num |-> i, content |-> lines[i]]]

\* a rewrite shows all of a new content of at most this many lines
PreviewLimit == 100
\* and the first lines of a longer one, this many
PreviewShown == 50

\* the contents around the preview limit: PreviewLimit - PreviewPad to
\* PreviewLimit + PreviewPad lines, all blank but one line "a", which is the
\* last line a preview shows or the first it leaves out
PreviewContents ==
  {joinLines([i \in 1..n |-> IF i = marked THEN <<"a">> ELSE <<>>]) :
     n \in (PreviewLimit - PreviewPad)..(PreviewLimit + PreviewPad),
     marked \in {PreviewShown, PreviewShown + 1}}

\* the lines of the list of structural changes; a list line carries the
\* (name, kind) pairs it joins
formatStructuralChanges(structuralChanges) ==
  LET added == SelectSeq(structuralChanges, LAMBDA c : c.action = "added")
      removed == SelectSeq(structuralChanges, LAMBDA c : c.action = "removed")
      items(cs) == [i \in 1..Len(cs) |-> [name |-> cs[i].name, type |-> cs[i].type]]
  IN IF Len(structuralChanges) = 0 THEN <<>>
     ELSE <<Lit("### Structural Changes"), Lit("")>>
          \o (IF Len(removed) > 0 THEN <<[k |-> "removedList", items |-> items(removed)]>>
              ELSE <<>>)
          \o (IF Len(added) > 0 THEN <<[k |-> "addedList", items |-> items(added)]>>
              ELSE <<>>)
          \o <<Lit("")>>

\* the block of one comment of the 'Comments' list of a major rewrite
rewriteComment(lc, data) ==
  <<[k |-> "comment", form |-> "plain", place |-> "rewrite", label |-> lineLabel(lc),
     sideLabel |-> "", text |-> lc.text, id |-> lc.id],
    FenceEnd>>
  \o getContextAroundLine(IF lc.side = "new" THEN data.newContent ELSE data.oldContent,
                          lc.startLine)
  \o <<FenceEnd, Lit("")>>

\* rewriteLines that shows all of a content of fewer than PreviewLimit lines only
rewriteLinesBelowLimit(lineComments, data, language) ==
  LET newLines == splitLines(data.newContent)
      sorted == sortByStartLine(lineComments)
  IN formatStructuralChanges(getStructuralChanges(data.oldContent, data.newContent,
                                                  language))
     \o
     (IF Len(newLines) < PreviewLimit
      THEN <<Lit("### New Content"), [k |-> "fence", language |-> language]>>
           \o numberedLines(newLines)
           \o <<FenceEnd, Lit("")>>
      ELSE <<Lit("### Content Preview"), [k |-> "previewNote", total |-> Len(newLines)],
             [k |-> "fence", language |-> language]>>
           \o numberedLines(SubSeq(newLines, 1, PreviewShown))
           \o <<FenceEnd, [k |-> "moreLines", count |-> Len(newLines) - PreviewShown],
                Lit("")>>)
     \o (IF Len(lineComments) > 0
         THEN <<Lit("### Comments"), Lit("")>>
              \o flatten([i \in 1..Len(sorted) |-> rewriteComment(sorted[i], data)])
         ELSE <<>>)

\* the branch of a major rewrite
rewriteLines(lineComments, data, language) ==
  LET newLines == splitLines(data.newContent)
      sorted == sortByStartLine(lineComments)
  IN formatStructuralChanges(getStructuralChanges(data.oldContent, data.newContent,
                                                  language))
     \o
     (IF Len(newLines) <= PreviewLimit
      THEN <<Lit("### New Content"), [k |-> "fence", language |-> language]>>
           \o numberedLines(newLines)
           \o <<FenceEnd, Lit("")>>
      ELSE <<Lit("### Content Preview"), [k |-> "previewNote", total |-> Len(newLines)],
             [k |-> "fence", language |-> language]>>
           \o numberedLines(SubSeq(newLines, 1, PreviewShown))
           \o <<FenceEnd, [k |-> "moreLines", count |-> Len(newLines) - PreviewShown],
                Lit("")>>)
     \o (IF Len(lineComments) > 0
         THEN <<Lit("### Comments"), Lit("")>>
              \o flatten([i \in 1..Len(sorted) |-> rewriteComment(sorted[i], data)])
         ELSE <<>>)

\* inHunk that tests every comment against the new range, whatever its side
inHunkNewOnly(lc, hunk) ==
  lc.startLine >= hunk.newStart /\ lc.startLine <= hunk.newStart + hunk.newCount - 1

\* the filter of the comments of one hunk
inHunk(lc, hunk) ==
  IF lc.side = "new"
  THEN lc.startLine >= hunk.newStart /\ lc.startLine <= hunk.newStart + hunk.newCount - 1
  ELSE lc.startLine >= hunk.oldStart /\ lc.startLine <= hunk.oldStart + hunk.oldCount - 1

\* one hunk: its fenced diff, then the comments in its range
hunkBlock(hunk, lineComments) ==
  LET hunkComments == sortByStartLine(SelectSeq(lineComments, LAMBDA lc : inHunk(lc, hunk)))
  IN <<[k |-> "fence", language |-> "diff"]>> \o formatHunk(hunk) \o <<FenceEnd>>
     \o flatten([i \in 1..Len(hunkComments) |->
          <<[k |-> "comment", form |-> "quote", place |-> "hunk",
             label |-> lineLabel(hunkComments[i]),
             sideLabel |-> IF hunkComments[i].side = "new" THEN "" ELSE " (removed)",
             text |-> hunkComments[i].text, id |-> hunkComments[i].id],
            Lit("")>>])

\* the block of one comment under 'Other Comments'
otherComment(lc, data) ==
  LET contextContent == IF lc.side = "new" THEN data.newContent ELSE data.oldContent
  IN <<[k |-> "comment", form |-> "plain", place |-> "other", label |-> lineLabel(lc),
        sideLabel |-> "", text |-> lc.text, id |-> lc.id]>>
     \o (IF contextContent # <<>>
         THEN <<FenceEnd>> \o getContextAroundLine(contextContent, lc.startLine)
              \o <<FenceEnd>>
         ELSE <<>>)
     \o <<Lit("")>>

\* the branch of a normal change
hunkedLines(lineComments, data, language) ==
  LET hs == generateUnifiedDiff(data.oldContent, data.newContent, DefaultContextLines)
      uncoveredComments ==
        SelectSeq(lineComments, LAMBDA lc : ~\E h \in 1..Len(hs) : inHunk(lc, hs[h]))
      sortedUncovered == sortByStartLine(uncoveredComments)
  IN IF Len(hs) = 0 /\ data.newContent # <<>> /\ data.oldContent = <<>>
     THEN <<Lit("### New File"), [k |-> "fence", language |-> language]>>
          \o numberedLines(splitLines(data.newContent))
          \o <<FenceEnd, Lit("")>>
     ELSE IF Len(hs) > 0
     THEN <<Lit("### Changes"), Lit("")>>
          \o flatten([h \in 1..Len(hs) |-> hunkBlock(hs[h], lineComments)])
          \o (IF Len(uncoveredComments) > 0
              THEN <<Lit("### Other Comments"), Lit("")>>
                   \o flatten([i \in 1..Len(sortedUncovered) |->
                                 otherComment(sortedUncovered[i], data)])
              ELSE <<>>)
     ELSE <<>>

\* the block of one comment of a file without file data
noDataComment(lc) ==
  <<[k |-> "comment", form |-> "plain", place |-> "nodata", label |-> lineLabel(lc),
     sideLabel |-> "", text |-> lc.text, id |-> lc.id]>>
  \o (IF Len(lc.lineContents) > 0
      THEN <<FenceEnd, [k |-> "lineContents", lines |-> lc.lineContents], FenceEnd>>
      ELSE <<>>)
  \o <<Lit("")>>

\* fileDataMap.get(key) || null, as [found, value]
getData(fileDataMap, key) ==
  IF key \in DOMAIN fileDataMap THEN [found |-> TRUE, value |-> fileDataMap[key]]
  ELSE [found |-> FALSE]

\* the content branch the section of a file takes
contentBranch(comment, fileDataMap) ==
  LET got == getData(fileDataMap, fileKey(comment.filePath, comment.staged))
  IN IF got.found /\ (got.value.oldContent # <<>> \/ got.value.newContent # <<>>)
     THEN IF calculateDiffStats(got.value.oldContent, got.value.newContent).isMajorRewrite
          THEN "rewrite" ELSE "hunks"
     ELSE IF Len(comment.lineComments) > 0 THEN "nodata" ELSE "none"

\* the row of one file in the summary table
summaryRow(comment, fileDataMap) ==
  LET key == fileKey(comment.filePath, comment.staged)
      parts == split(key, ":")
      got == getData(fileDataMap, key)
  IN [k |-> "row",
      filePath |-> parts[1],
      status |-> IF got.found /\ got.value.status # ""
                 THEN getStatusLabel(got.value.status) ELSE "Unknown",
      stage |-> IF parts[2] = <<"t", "r", "u", "e">> THEN "Staged" ELSE "Unstaged",
      totalComments |-> Len(comment.lineComments)
                        + (IF comment.generalComment # "" THEN 1 ELSE 0),
      language |-> IF got.found /\ got.value.language # ""
                   THEN got.value.language ELSE "text"]

\* the section of one file
fileSection(comment, fileDataMap) ==
  LET key == fileKey(comment.filePath, comment.staged)
      parts == split(key, ":")
      got == getData(fileDataMap, key)
      status == IF got.found /\ got.value.status # ""
                THEN getStatusLabel(got.value.status) ELSE ""
      language == IF got.found /\ got.value.language # "" THEN got.value.language
                  ELSE "text"
      st == IF got.found
            THEN calculateDiffStats(got.value.oldContent, got.value.newContent)
            ELSE NoStats
      branch == contentBranch(comment, fileDataMap)
  IN <<[k |-> "header", filePath |-> parts[1], status |-> status,
        majorRewrite |-> got.found /\ st.isMajorRewrite],
       [k |-> "meta",
        stage |-> IF parts[2] = <<"t", "r", "u", "e">> THEN "Staged" ELSE "Unstaged",
        language |-> language, hasStats |-> got.found,
        oldLines |-> st.oldLines, newLines |-> st.newLines,
        added |-> st.addedLines, removed |-> st.removedLines],
       Lit("")>>
     \o (IF comment.generalComment # ""
         THEN <<Lit("### Notes"), [k |-> "notes", text |-> comment.generalComment], Lit("")>>
         ELSE <<>>)
     \o (CASE branch = "rewrite" -> rewriteLines(comment.lineComments, got.value, language)
           [] branch = "hunks" -> hunkedLines(comment.lineComments, got.value, language)
           [] branch = "nodata" ->
                <<Lit("### Comments")>>
                \o flatten([i \in 1..Len(comment.lineComments) |->
                              noDataComment(sortByStartLine(comment.lineComments)[i])])
           [] OTHER -> <<>>)
     \o <<Lit("---"), Lit("")>>

\* the markdown, as the sequence of its lines
generateContextMarkdown(fileComments, fileDataMap, reviewFocus) ==
  IF Len(fileComments) = 0
  THEN <<Lit("# Code Review Context"), Lit(""), Lit("No files to review.")>>
  ELSE <<Lit("# Code Review Context"), Lit(""), Lit("> **Instructions:**"), Lit(""),
         Lit("## Summary"), Lit(""),
         Lit("| File | Status | Stage | Comments | Language |"),
         Lit("|------|--------|-------|----------|----------|")>>
       \o [f \in 1..Len(fileComments) |-> summaryRow(fileComments[f], fileDataMap)]
       \o <<Lit("")>>
       \o (IF reviewFocus # ""
           THEN <<Lit("## Review Focus"), Lit(""), [k |-> "focus", text |-> reviewFocus],
                  Lit("")>>
           ELSE <<>>)
       \o <<Lit("---"), Lit("")>>
       \o flatten([f \in 1..Len(fileComments) |-> fileSection(fileComments[f], fileDataMap)])

\* the FileComment objects after the call: the rewrite branch and the branch
\* without file data sort comment.lineComments in place
commentsAfter(fileComments, fileDataMap) ==
  [f \in 1..Len(fileComments) |->
     IF contentBranch(fileComments[f], fileDataMap) \in {"rewrite", "nodata"}
     THEN [fileComments[f] EXCEPT !.lineComments = sortByStartLine(@)]
     ELSE fileComments[f]]

(* ----------------------------- state ----------------------------------- *)

VARIABLES
  oldContent,    \* FileContextData.oldContent
  newContent,    \* FileContextData.newContent
  pc,            \* the function applied last
  argOld,        \* the old line sequence handed to computeDiff
  argNew,        \* the new line sequence handed to computeDiff
  changes,       \* the edit script computeDiff returned
  contextLines,  \* the contextLines handed to generateUnifiedDiff
  hunks,         \* the hunks generateUnifiedDiff returned
  stats,         \* the DiffStats calculateDiffStats returned
  given,         \* the FileComment list as handed to generateContextMarkdown
  comments,      \* the same FileComment objects, as they are after the call
  fileDataMap,   \* the file-data map handed to generateContextMarkdown
  markdown,      \* the lines of the markdown generateContextMarkdown returned
  markdownAgain, \* the lines of the markdown a second call in a row returned
  side,          \* the side of the comment whose context is asked for
  lineNum,       \* the lineNum handed to getContextAroundLine
  result,        \* the lines getContextAroundLine returned
  language,      \* the language handed to getStructuralChanges
  oldElements,   \* the elements extracted from oldContent
  newElements,   \* the elements extracted from newContent
  structuralChanges \* the changes getStructuralChanges returned

\* the state of the hooks of the review session
VARIABLES
  approvals,     \* useFileApproval: the approvals map, entries in insertion order
  approvedWith,  \* history: the contents each approved key was approved with
  apCall,        \* the call of the approval hook made last, with what it returned
  runs,          \* the runs of handleFilesChange in flight, oldest first
  commentStore,  \* useComments: the comments map, entries in insertion order
  cmCall,        \* the call of the comments hook made last, with what it returned
  localStorage,  \* the item stored under STORAGE_KEY, or NoItem
  saveTimeoutRef, \* saveTimeoutRef.current: the id of the timer set last, 0 for null
  timers,        \* the timeouts that are set and have neither fired nor been cleared
  sinceChange,   \* the milliseconds since the save effect ran last
  saveEffect,    \* whether the save effect has yet to run for the comments map
  navComments,   \* useCommentNavigation: the comments handed to the hook
  focusedIndex,  \* the focusedIndex state
  navEffect,     \* whether the reset effect has yet to run for its dependencies
  navCall,       \* the call of the navigation hook made last
  repoPath,      \* useGitDiff: the repoPath state, "" for null
  initialized,   \* the initialized state
  hasLoadedFiles, \* hasLoadedFiles.current
  loading,       \* the loading state
  gitError,      \* the error state, "" for null
  gitFiles,      \* the files state
  gitEffect,     \* whether the refresh effect has yet to run for its dependencies
  gitCalls,      \* the asynchronous calls that await their backend command
  selected,      \* history: a selection succeeded and refreshFiles was not called since
  autoRefreshes  \* history: the calls of refreshFiles by the effect since then

\* the variables of the diff and context engine
engineVars == <<oldContent, newContent, pc, argOld, argNew, changes, contextLines, hunks,
                stats, given, comments, fileDataMap, markdown, markdownAgain,
                side, lineNum, result, language, oldElements, newElements,
                structuralChanges>>

\* the variables of useFileApproval and of the re-check App runs
apVars == <<approvals, approvedWith, apCall, runs>>

\* the variables of the hooks
cmVars ==
  <<commentStore, cmCall, localStorage, saveTimeoutRef, timers, sinceChange, saveEffect>>

navVars == <<navComments, focusedIndex, navEffect, navCall>>

gitVars ==
  <<repoPath, initialized, hasLoadedFiles, loading, gitError, gitFiles, gitEffect,
    gitCalls, selected, autoRefreshes>>

hookVars == <<apVars, cmVars, navVars, gitVars>>

\* what each of the hooks leaves alone
notApproval == <<engineVars, cmVars, navVars, gitVars>>

notComments == <<engineVars, apVars, navVars, gitVars>>

notNavigation == <<engineVars, apVars, cmVars, gitVars>>

notGitDiff == <<engineVars, apVars, cmVars, navVars>>

vars == <<engineVars, hookVars>>

\* no call of the approval hook made yet
NoCall == [op |-> "none"]

\* the delay of the debounced save, in milliseconds
SaveDelay == 500

\* useComments as it is mounted on a first launch: nothing is stored, the map
\* loaded is empty, and the save effect has run once and set the first timer
CommentsMounted ==
  /\ localStorage = <<>>
  /\ commentStore = <<>>
  /\ cmCall = NoCall
  /\ saveTimeoutRef = 1
  /\ timers = {[id |-> 1, comments |-> <<>>, remaining |-> SaveDelay]}
  /\ sinceChange = 0
  /\ saveEffect = FALSE

\* useFileApproval as it is mounted: no file is approved
ApprovalMounted ==
  /\ approvals = <<>>
  /\ approvedWith = <<>>
  /\ apCall = NoCall
  /\ runs = <<>>

\* useCommentNavigation as it is mounted on a file without comments: the
\* reset effect has run and changed nothing
NavigationMounted ==
  /\ navComments = <<>>
  /\ focusedIndex = -1
  /\ navEffect = FALSE
  /\ navCall = NoCall

\* useGitDiff as it is mounted: the refresh effect has run and found no
\* repoPath, and loadSavedPath awaits get_project_path
GitDiffMounted ==
  /\ repoPath = ""
  /\ initialized = FALSE
  /\ hasLoadedFiles = FALSE
  /\ loading = FALSE
  /\ gitError = ""
  /\ gitFiles = <<>>
  /\ gitEffect = FALSE
  /\ gitCalls = <<[fn |-> "loadSavedPath", path |-> ""]>>
  /\ selected = FALSE
  /\ autoRefreshes = 0

\* the hooks as they are mounted, before any call
HooksMounted ==
  /\ ApprovalMounted
  /\ CommentsMounted
  /\ NavigationMounted
  /\ GitDiffMounted

mdVars == <<given, comments, fileDataMap, markdown, markdownAgain>>

\* the variables of the calls of the helper functions
fnVars == <<side, lineNum, result, language, oldElements, newElements, structuralChanges>>

\* the engine before a call, for the contents in C
EngineIdle(C) ==
  /\ oldContent \in C
  /\ newContent \in C
  /\ pc = "input"
  /\ argOld = <<>>
  /\ argNew = <<>>
  /\ changes = <<>>
  /\ contextLines = DefaultContextLines
  /\ hunks = <<>>
  /\ stats = NoStats
  /\ given = <<>>
  /\ comments = <<>>
  /\ fileDataMap = <<>>
  /\ markdown = <<>>
  /\ markdownAgain = <<>>
  /\ side = "new"
  /\ lineNum = 0
  /\ result = <<>>
  /\ language = "text"
  /\ oldElements = <<>>
  /\ newElements = <<>>
  /\ structuralChanges = <<>>

\* the state before a call, for the contents in C
InitOver(C) == EngineIdle(C) /\ HooksMounted

Init == InitOver(Contents)

InitMd == InitOver(MdContents)

\* computeDiff as its two callers invoke it: calculateDiffStats passes no line
\* for an empty content, generateUnifiedDiff passes the plain split
CallComputeDiff ==
  /\ pc = "input"
  /\ \E viaStats \in BOOLEAN :
       /\ argOld' = IF viaStats THEN linesOrNone(oldContent) ELSE splitLines(oldContent)
       /\ argNew' = IF viaStats THEN linesOrNone(newContent) ELSE splitLines(newContent)
  /\ changes' = computeDiff(argOld', argNew')
  /\ pc' = "computeDiff"
  /\ UNCHANGED <<oldContent, newContent, contextLines, hunks, stats, mdVars, fnVars>>
  /\ UNCHANGED hookVars

\* generateUnifiedDiff(oldContent, newContent, contextLines)
CallGenerateUnifiedDiff ==
  /\ pc = "input"
  /\ contextLines' \in (0..MaxContext) \cup {DefaultContextLines}
  /\ argOld' = splitLines(oldContent)
  /\ argNew' = splitLines(newContent)
  /\ changes' = computeDiff(argOld', argNew')
  /\ hunks' = createHunks(changes', argOld', argNew', contextLines')
  /\ pc' = "unifiedDiff"
  /\ UNCHANGED <<oldContent, newContent, stats, mdVars, fnVars>>
  /\ UNCHANGED hookVars

\* calculateDiffStats(oldContent, newContent)
CallCalculateDiffStats ==
  /\ pc = "input"
  /\ argOld' = linesOrNone(oldContent)
  /\ argNew' = linesOrNone(newContent)
  /\ changes' = computeDiff(argOld', argNew')
  /\ stats' = calculateDiffStats(oldContent, newContent)
  /\ pc' = "stats"
  /\ UNCHANGED <<oldContent, newContent, contextLines, hunks, mdVars, fnVars>>
  /\ UNCHANGED hookVars

\* generateContextMarkdown(comments, fileDataMap, options) for one commented
\* file.  The map holds (oldContent, newContent) as the data of the file; a
\* map without an entry for the file is the case without any content.
CallGenerateContextMarkdown ==
  /\ pc = "input"
  /\ \E lcs \in LineCommentLists,
        withData \in (IF oldContent = <<>> /\ newContent = <<>> THEN BOOLEAN ELSE {TRUE}) :
       /\ given' = <<[filePath |-> <<"f">>, staged |-> TRUE, generalComment |-> "",
                      lineComments |-> lcs]>>
       /\ fileDataMap' =
            IF withData
            THEN fileKey(<<"f">>, TRUE) :>
                   [oldContent |-> oldContent, newContent |-> newContent,
                    language |-> "typescript", status |-> "M"]
            ELSE <<>>
  /\ markdown' = generateContextMarkdown(given', fileDataMap', "")
  /\ comments' = commentsAfter(given', fileDataMap')
  /\ pc' = "markdown"
  /\ UNCHANGED <<oldContent, newContent, argOld, argNew, changes, contextLines, hunks,
                 stats, markdownAgain, fnVars>>
  /\ UNCHANGED hookVars

\* a second call in a row: generateContextMarkdown receives the FileComment
\* objects and the map the first call was given, as the first call left them
CallGenerateContextMarkdownAgain ==
  /\ pc = "markdown"
  /\ markdownAgain' = generateContextMarkdown(comments, fileDataMap, "")
  /\ comments' = commentsAfter(comments, fileDataMap)
  /\ pc' = "markdownAgain"
  /\ UNCHANGED <<oldContent, newContent, argOld, argNew, changes, contextLines, hunks,
                 stats, given, fileDataMap, markdown, fnVars>>
  /\ UNCHANGED hookVars

\* generateContextMarkdown for one commented long file
CallGenerateContextMarkdownLongFile ==
  /\ pc = "input"
  /\ \E lcs \in LongCommentLists :
       given' = <<[filePath |-> <<"f">>, staged |-> TRUE, generalComment |-> "",
                   lineComments |-> lcs]>>
  /\ fileDataMap' = fileKey(<<"f">>, TRUE) :>
                      [oldContent |-> oldContent, newContent |-> newContent,
                       language |-> "typescript", status |-> "M"]
  /\ markdown' = generateContextMarkdown(given', fileDataMap', "")
  /\ comments' = commentsAfter(given', fileDataMap')
  /\ pc' = "markdown"
  /\ UNCHANGED <<oldContent, newContent, argOld, argNew, changes, contextLines, hunks,
                 stats, markdownAgain, fnVars>>
  /\ UNCHANGED hookVars

\* getContextAroundLine(contextContent, lc.startLine) as the comment blocks call
\* it: contextContent is the content of the side of the comment
CallGetContextAroundLine ==
  /\ pc = "input"
  /\ side' \in {"old", "new"}
  /\ lineNum' \in LineNums
  /\ result' = getContextAroundLine(IF side' = "new" THEN newContent ELSE oldContent,
                                     lineNum')
  /\ pc' = "context"
  /\ UNCHANGED <<oldContent, newContent, argOld, argNew, changes, contextLines, hunks,
                 stats, mdVars, language, oldElements, newElements, structuralChanges>>
  /\ UNCHANGED hookVars

\* getStructuralChanges(oldContent, newContent, language)
CallGetStructuralChanges ==
  /\ pc = "input"
  /\ language' \in Languages
  /\ oldElements' = extractStructuralElements(oldContent, language')
  /\ newElements' = extractStructuralElements(newContent, language')
  /\ structuralChanges' = getStructuralChanges(oldContent, newContent, language')
  /\ pc' = "structural"
  /\ UNCHANGED <<oldContent, newContent, argOld, argNew, changes, contextLines, hunks,
                 stats, mdVars, side, lineNum, result>>
  /\ UNCHANGED hookVars

\* generateContextMarkdown for a review of several files; the map holds
\* (oldContent, newContent) as the data of each of them
CallGenerateContextMarkdownFiles ==
  /\ pc = "input"
  /\ given' \in FileCommentLists
  /\ fileDataMap' =
       [key \in {fileKey(given'[f].filePath, given'[f].staged) : f \in 1..Len(given')} |->
          [oldContent |-> oldContent, newContent |-> newContent,
           language |-> "typescript", status |-> "M"]]
  /\ markdown' = generateContextMarkdown(given', fileDataMap', "")
  /\ comments' = commentsAfter(given', fileDataMap')
  /\ pc' = "markdown"
  /\ UNCHANGED <<oldContent, newContent, argOld, argNew, changes, contextLines, hunks,
                 stats, markdownAgain, fnVars>>
  /\ UNCHANGED hookVars

Next ==
  \/ CallComputeDiff
  \/ CallGenerateUnifiedDiff
  \/ CallCalculateDiffStats

Spec == Init /\ [][Next]_vars

NextMd ==
  \/ CallGenerateContextMarkdown

SpecMd == InitMd /\ [][NextMd]_vars

InitAgain == InitOver(RepeatContents)

NextAgain ==
  \/ CallGenerateContextMarkdown
  \/ CallGenerateContextMarkdownAgain

SpecAgain == InitAgain /\ [][NextAgain]_vars

InitFiles == InitOver(RepeatContents)

NextFiles ==
  \/ CallGenerateContextMarkdownFiles

SpecFiles == InitFiles /\ [][NextFiles]_vars

\* an added file of about PreviewLimit lines
InitPreview == InitOver(PreviewContents \cup {<<>>}) /\ oldContent = <<>> /\ newContent # <<>>

NextPreview ==
  \/ CallGenerateContextMarkdown

SpecPreview == InitPreview /\ [][NextPreview]_vars

InitCtx == InitOver(CtxContents)

NextCtx ==
  \/ CallGetContextAroundLine

SpecCtx == InitCtx /\ [][NextCtx]_vars

InitStruct == InitOver(DeclContents)

NextStruct ==
  \/ CallGetStructuralChanges

SpecStruct == InitStruct /\ [][NextStruct]_vars

InitLong == InitOver(LongContents)

NextLong ==
  \/ CallGenerateContextMarkdownLongFile

SpecLong == InitLong /\ [][NextLong]_vars

(* ======================================================================= *)
(* The hooks of the review session                                         *)
(* ======================================================================= *)

(* ----------------------------- useFileApproval ------------------------- *)

\* most entries of the approvals map
MaxApproved == 2
\* most runs of handleFilesChange in flight at once
MaxRuns == 2

\* the contents a file is approved and checked with
ApContents == {<<>>, <<"a">>}
\* the files of the session: a path staged and unstaged, and a path with a colon
ApFiles ==
  {[filePath |-> <<"f">>, staged |-> TRUE], [filePath |-> <<"f">>, staged |-> FALSE],
   [filePath |-> <<"d", ":", "f">>, staged |-> TRUE]}
\* the file of the session in which the re-check is in flight
RunFiles == {[filePath |-> <<"f">>, staged |-> TRUE]}

\* 32-bit two's complement: the largest value, and the powers of two below it
MaxInt32 == 2147483647
Two26 == 2^26
Two27 == 2^27
Two30 == 2^30

\* x << 5 on a 32-bit value: the low 27 bits move up, bit 26 becomes the sign
shiftLeft5(x) ==
  IF (x % Two27) >= Two26 THEN (((x % Two27) - Two26) * 32 - Two30) - Two30
  ELSE (x % Two27) * 32

\* (a - b) | 0 on 32-bit values: the difference wraps around
subInt32(a, b) ==
  IF a >= 0 /\ b < 0 /\ a > MaxInt32 + b
  THEN (a - MaxInt32 - 1) - (b + MaxInt32 + 1)
  ELSE IF a < 0 /\ b >= 0 /\ a < (b - MaxInt32) - 1
  THEN (a + MaxInt32 + 1) - (b - MaxInt32 - 1)
  ELSE a - b

\* (a + b) | 0 on 32-bit values: the sum wraps around
addInt32(a, b) ==
  IF a >= 0 /\ b >= 0 /\ a > MaxInt32 - b
  THEN (a - MaxInt32 - 1) + (b - MaxInt32 - 1)
  ELSE IF a < 0 /\ b < 0 /\ a < (0 - MaxInt32 - 1) - b
  THEN (a + MaxInt32 + 1) + (b + MaxInt32 + 1)
  ELSE a + b

\* String.prototype.charCodeAt for the characters of a content
charCode(c) == CASE c = "a" -> 97 [] c = "\n" -> 10 [] c = ":" -> 58

\* the digits of Number.prototype.toString(36)
Digits36 ==
  <<"0", "1", "2", "3", "4", "5", "6", "7", "8", "9", "a", "b", "c", "d", "e", "f",
    "g", "h", "i", "j", "k", "l", "m", "n", "o", "p", "q", "r", "s", "t", "u", "v",
    "w", "x", "y", "z">>

\* the base-36 digits of n >= 0, and of the magnitude of n < 0
RECURSIVE digits36(_)
digits36(n) ==
  IF n < 36 THEN <<Digits36[n + 1]>>
  ELSE Append(digits36(n \div 36), Digits36[(n % 36) + 1])

RECURSIVE digits36Neg(_)
negRest(n, low) ==
  IF n + low = 0 THEN <<Digits36[low + 1]>>
  ELSE Append(digits36Neg((n + low) \div 36), Digits36[low + 1])

digits36Neg(n) == negRest(n, (36 - (n % 36)) % 36)

\* Number.prototype.toString(36) of a 32-bit value
toString36(n) == IF n < 0 THEN <<"-">> \o digits36Neg(n) ELSE digits36(n)

\* the loop of hashContent from character i on
RECURSIVE hashFrom(_, _, _)
hashFrom(hash, content, i) ==
  IF i > Len(content) THEN hash
  ELSE hashFrom(addInt32(subInt32(shiftLeft5(hash), hash), charCode(content[i])),
                content, i + 1)

hashContent(content) == toString36(hashFrom(0, content, 1))

\* String(staged)
boolString(b) == IF b THEN <<"t", "r", "u", "e">> ELSE <<"f", "a", "l", "s", "e">>

getFileKey(filePath, staged) == filePath \o <<":">> \o boolString(staged)

\* a Map kept as its entries [key, value] in insertion order
mapHasKey(map, key) == \E i \in 1..Len(map) : map[i].key = key

\* Map.prototype.get of a key the map has
mapGet(map, key) == map[CHOOSE i \in 1..Len(map) : map[i].key = key].value

\* Map.prototype.set: a key already there keeps its place and takes the value
mapSetKey(map, key, value) ==
  IF mapHasKey(map, key)
  THEN [i \in 1..Len(map) |->
          IF map[i].key = key THEN [key |-> key, value |-> value] ELSE map[i]]
  ELSE Append(map, [key |-> key, value |-> value])

\* Map.prototype.delete
mapDelete(map, key) == SelectSeq(map, LAMBDA e : e.key # key)

\* approvals.get(key)?.approved
approvedIn(snapshot, key) == mapHasKey(snapshot, key) /\ mapGet(snapshot, key).approved

isApproved(snapshot, filePath, staged) == approvedIn(snapshot, getFileKey(filePath, staged))

\* the updater of approveFile, applied to prev
approveFile(prev, filePath, staged, oldC, newC) ==
  mapSetKey(prev, getFileKey(filePath, staged),
            [approved |-> TRUE, contentHash |-> hashContent(oldC \o newC)])

\* the updater of unapproveFile, applied to prev
unapproveFile(prev, filePath, staged) == mapDelete(prev, getFileKey(filePath, staged))

\* toggleApproval called through the closure of the render of snapshot
toggleApproval(snapshot, prev, filePath, staged, oldC, newC) ==
  IF approvedIn(snapshot, getFileKey(filePath, staged))
  THEN unapproveFile(prev, filePath, staged)
  ELSE approveFile(prev, filePath, staged, oldC, newC)

\* checkAndUpdateApproval called through the closure of the render of
\* snapshot: what it returns, and the approvals after its updater ran on prev
checkAndUpdateApproval(snapshot, prev, filePath, staged, oldC, newC) ==
  IF ~approvedIn(snapshot, getFileKey(filePath, staged))
  THEN [returned |-> FALSE, approvals |-> prev]
  ELSE IF mapGet(snapshot, getFileKey(filePath, staged)).contentHash
          # hashContent(oldC \o newC)
  THEN [returned |-> FALSE, approvals |-> mapDelete(prev, getFileKey(filePath, staged))]
  ELSE [returned |-> TRUE, approvals |-> prev]

\* Array.prototype.join
RECURSIVE joinWith(_, _)
joinWith(parts, sep) ==
  IF parts = <<>> THEN <<>>
  ELSE IF Len(parts) = 1 THEN parts[1]
  ELSE parts[1] \o sep \o joinWith(Tail(parts), sep)

\* the file of a key: all parts but the last joined again, and the last part
fileOfParts(parts) ==
  [filePath |-> joinWith(SubSeq(parts, 1, Len(parts) - 1), <<":">>),
   staged |-> parts[Len(parts)] = <<"t", "r", "u", "e">>]

\* the file of a key, the path taken as the first part alone
fileOfFirstPart(parts) ==
  [filePath |-> parts[1], staged |-> parts[Len(parts)] = <<"t", "r", "u", "e">>]

\* getApprovedFiles that takes the path up to the first colon
getApprovedFilesFirstPart(snapshot) ==
  [i \in 1..Len(SelectSeq(snapshot, LAMBDA e : e.value.approved)) |->
     fileOfFirstPart(split(SelectSeq(snapshot, LAMBDA e : e.value.approved)[i].key, ":"))]

\* the entries of the result of getApprovedFiles, in the order of the map
filesOfEntries(entries) == [i \in 1..Len(entries) |-> fileOfParts(split(entries[i].key, ":"))]

getApprovedFiles(snapshot) ==
  filesOfEntries(SelectSeq(snapshot, LAMBDA e : e.value.approved))

getApprovedCount(snapshot) == Len(SelectSeq(snapshot, LAMBDA e : e.value.approved))

\* the value of a key in the map, as a sequence of none or one
valueOf(map, key) == IF mapHasKey(map, key) THEN <<mapGet(map, key)>> ELSE <<>>

\* the record of a call of checkAndUpdateApproval: the entry and the history
\* of the key before it, and what it returned
checkCall(filePath, staged, oldC, newC, stored, with, returned) ==
  [op |-> "checkAndUpdateApproval", filePath |-> filePath, staged |-> staged,
   oldContent |-> oldC, newContent |-> newC, stored |-> stored, with |-> with,
   returned |-> returned]

\* the history is a map from a file to the contents it was approved with,
\* kept for the files whose approval is in force
approvedNow(history, file, oldC, newC) ==
  mapSetKey(history, file, [oldContent |-> oldC, newContent |-> newC])

\* the history after a check of file that returned returned
checkedNow(history, file, returned) ==
  IF returned THEN history ELSE mapDelete(history, file)

\* the run of handleFilesChange that the effect starts on the render of
\* snapshot: the approved files it is to check, none checked yet
runOf(snapshot) == [snapshot |-> snapshot, todo |-> getApprovedFiles(snapshot)]

\* the runs once the approvals became next: the effect runs again when the
\* approvals changed, and a run with no file to check ends at once
runsAfter(current, prev, next) ==
  IF next # prev /\ getApprovedFiles(next) # <<>> THEN Append(current, runOf(next))
  ELSE current

\* the files the session may approve: the map holds MaxApproved entries at most
MayApprove(filePath, staged) ==
  mapHasKey(approvals, getFileKey(filePath, staged)) \/ Len(approvals) < MaxApproved

(* --- the hook called from the render that is current --- *)

ApproveFile(Files, Contents_) ==
  \E file \in Files, oldC \in Contents_, newC \in Contents_ :
    /\ MayApprove(file.filePath, file.staged)
    /\ approvals' = approveFile(approvals, file.filePath, file.staged, oldC, newC)
    /\ approvedWith' = approvedNow(approvedWith, file, oldC, newC)
    /\ apCall' = [op |-> "approveFile", filePath |-> file.filePath, staged |-> file.staged]

UnapproveFile(Files) ==
  \E file \in Files :
    /\ approvals' = unapproveFile(approvals, file.filePath, file.staged)
    /\ approvedWith' = mapDelete(approvedWith, file)
    /\ apCall' = [op |-> "unapproveFile", filePath |-> file.filePath, staged |-> file.staged]

ToggleApproval(Files, Contents_) ==
  \E file \in Files, oldC \in Contents_, newC \in Contents_ :
    /\ MayApprove(file.filePath, file.staged)
    /\ approvals' = toggleApproval(approvals, approvals, file.filePath, file.staged, oldC, newC)
    /\ approvedWith' =
         IF mapHasKey(approvedWith, file) THEN mapDelete(approvedWith, file)
         ELSE approvedNow(approvedWith, file, oldC, newC)
    /\ apCall' = [op |-> "toggleApproval", filePath |-> file.filePath, staged |-> file.staged]

ClearAllApprovals ==
  /\ approvals' = <<>>
  /\ approvedWith' = <<>>
  /\ apCall' = [op |-> "clearAllApprovals"]

CheckAndUpdateApproval(Files, Contents_) ==
  \E file \in Files, oldC \in Contents_, newC \in Contents_ :
    /\ approvals' = checkAndUpdateApproval(approvals, approvals, file.filePath, file.staged,
                                           oldC, newC).approvals
    /\ approvedWith' =
         checkedNow(approvedWith, file,
                    checkAndUpdateApproval(approvals, approvals, file.filePath,
                                           file.staged, oldC, newC).returned)
    /\ apCall' = checkCall(file.filePath, file.staged, oldC, newC,
                           valueOf(approvals, getFileKey(file.filePath, file.staged)),
                           valueOf(approvedWith, file),
                           checkAndUpdateApproval(approvals, approvals, file.filePath, file.staged,
                                                  oldC, newC).returned)

GetApprovedFiles ==
  /\ apCall' = [op |-> "getApprovedFiles", returned |-> getApprovedFiles(approvals)]
  /\ UNCHANGED <<approvals, approvedWith>>

IsApproved(Files) ==
  \E file \in Files :
    /\ apCall' = [op |-> "isApproved", filePath |-> file.filePath, staged |-> file.staged,
                  returned |-> isApproved(approvals, file.filePath, file.staged)]
    /\ UNCHANGED <<approvals, approvedWith>>

GetApprovedCount ==
  /\ apCall' = [op |-> "getApprovedCount", returned |-> getApprovedCount(approvals)]
  /\ UNCHANGED <<approvals, approvedWith>>

(* --- the session of the hook alone: no re-check in flight --- *)

CallApproveFile == ApproveFile(ApFiles, ApContents) /\ UNCHANGED <<notApproval, runs>>
CallUnapproveFile == UnapproveFile(ApFiles) /\ UNCHANGED <<notApproval, runs>>
CallToggleApproval == ToggleApproval(ApFiles, ApContents) /\ UNCHANGED <<notApproval, runs>>
CallClearAllApprovals == ClearAllApprovals /\ UNCHANGED <<notApproval, runs>>
CallCheckAndUpdateApproval ==
  CheckAndUpdateApproval(ApFiles, ApContents) /\ UNCHANGED <<notApproval, runs>>
CallGetApprovedFiles == GetApprovedFiles /\ UNCHANGED <<notApproval, runs>>
CallIsApproved == IsApproved(ApFiles) /\ UNCHANGED <<notApproval, runs>>
CallGetApprovedCount == GetApprovedCount /\ UNCHANGED <<notApproval, runs>>

\* the engine at rest while the hooks are at work
InitHooks == InitOver({<<>>})

NextApproval ==
  \/ CallApproveFile
  \/ CallUnapproveFile
  \/ CallToggleApproval
  \/ CallClearAllApprovals
  \/ CallCheckAndUpdateApproval
  \/ CallGetApprovedFiles
  \/ CallIsApproved
  \/ CallGetApprovedCount

SpecApproval == InitHooks /\ [][NextApproval]_vars

(* --- the session of App: the re-check of the approved files in flight --- *)

\* the runs without run k once it has checked its last file, with the file
\* checked taken off its list otherwise
runsStepped(current, k) ==
  IF Len(current[k].todo) = 1
  THEN SubSeq(current, 1, k - 1) \o SubSeq(current, k + 1, Len(current))
  ELSE [current EXCEPT ![k].todo = Tail(@)]

\* the file list changes (a refresh): the effect runs handleFilesChange on the
\* render that is current, which reads the approved files and awaits the
\* change of the first of them
FilesChange ==
  /\ Len(runs) < MaxRuns
  /\ getApprovedFiles(approvals) # <<>>
  /\ runs' = Append(runs, runOf(approvals))
  /\ UNCHANGED <<notApproval, approvals, approvedWith, apCall>>

\* the user toggles the approval of the file shown; the approvals change, so
\* the effect runs handleFilesChange again on the new render
RecheckToggleApproval ==
  /\ ToggleApproval(RunFiles, ApContents)
  /\ runs' = runsAfter(runs, approvals, approvals')
  /\ Len(runs') <= MaxRuns
  /\ UNCHANGED notApproval

\* a run resumes after await getFileChange(file) with the change of the file
\* it awaited and calls the checkAndUpdateApproval of the render it started on
RunCheck ==
  \E k \in 1..Len(runs), oldC \in ApContents, newC \in ApContents :
    /\ approvals' =
         checkAndUpdateApproval(runs[k].snapshot, approvals, Head(runs[k].todo).filePath,
                                Head(runs[k].todo).staged, oldC, newC).approvals
    /\ approvedWith' =
         IF approvals' = approvals THEN approvedWith
         ELSE mapDelete(approvedWith, Head(runs[k].todo))
    /\ apCall' =
         checkCall(Head(runs[k].todo).filePath, Head(runs[k].todo).staged, oldC, newC,
                   valueOf(approvals, getFileKey(Head(runs[k].todo).filePath,
                                                 Head(runs[k].todo).staged)),
                   valueOf(approvedWith, Head(runs[k].todo)),
                   checkAndUpdateApproval(runs[k].snapshot, approvals,
                                          Head(runs[k].todo).filePath,
                                          Head(runs[k].todo).staged, oldC, newC).returned)
    /\ runs' = runsAfter(runsStepped(runs, k), approvals, approvals')
    /\ Len(runs') <= MaxRuns
    /\ UNCHANGED notApproval

\* a run resumes with no change (getFileChange failed, or the file is no
\* longer in the list) and goes on to its next file
RunSkip ==
  \E k \in 1..Len(runs) :
    /\ runs' = runsStepped(runs, k)
    /\ UNCHANGED <<notApproval, approvals, approvedWith, apCall>>

NextRecheck ==
  \/ FilesChange
  \/ RecheckToggleApproval
  \/ RunCheck
  \/ RunSkip

SpecRecheck == InitHooks /\ [][NextRecheck]_vars

(* ----------------------------------------------------------------------- *)
(* useComments: the comments map, its operations and the debounced save    *)
(* ----------------------------------------------------------------------- *)

\* the most line comments a file is given
MaxStored == 1

\* the most line comments one file of a review holds
MaxImported == 2

STORAGE_VERSION == 2

\* the step in which time passes, in milliseconds
TickMs == 250

\* the ids generateId returns: random strings, so two calls may return the same
Ids == {1, 2}

\* a LineComment; lineContent, lineContents, createdAt and updatedAt are
\* carried along by every operation and left out
lineCommentOf(id, startLine, endLine, side_, text) ==
  [id |-> id, startLine |-> startLine, endLine |-> endLine, side |-> side_,
   text |-> text]

fileCommentOf(filePath, staged, generalComment, lineComments) ==
  [filePath |-> filePath, staged |-> staged, generalComment |-> generalComment,
   lineComments |-> lineComments]

\* the updater of addLineComment, applied to prev; id is what generateId returns
addLineComment(prev, filePath, staged, startLine, endLine, side_, text, id) ==
  IF mapHasKey(prev, getFileKey(filePath, staged))
  THEN mapSetKey(prev, getFileKey(filePath, staged),
         [mapGet(prev, getFileKey(filePath, staged)) EXCEPT
            !.lineComments = Append(@, lineCommentOf(id, startLine, endLine, side_, text))])
  ELSE mapSetKey(prev, getFileKey(filePath, staged),
         fileCommentOf(filePath, staged, "",
                       <<lineCommentOf(id, startLine, endLine, side_, text)>>))

\* the updater of updateLineComment, applied to prev
updateLineComment(prev, filePath, staged, commentId, newText) ==
  IF mapHasKey(prev, getFileKey(filePath, staged))
  THEN mapSetKey(prev, getFileKey(filePath, staged),
         [mapGet(prev, getFileKey(filePath, staged)) EXCEPT
            !.lineComments =
               [i \in 1..Len(@) |->
                  IF @[i].id = commentId THEN [@[i] EXCEPT !.text = newText] ELSE @[i]]])
  ELSE prev

\* what removeLineComment does with the entry once the comment is filtered out
withoutComment(prev, key, existing, newLineComments) ==
  IF newLineComments = <<>> /\ existing.generalComment = ""
  THEN mapDelete(prev, key)
  ELSE mapSetKey(prev, key, [existing EXCEPT !.lineComments = newLineComments])

\* the updater of removeLineComment, applied to prev
removeLineComment(prev, filePath, staged, commentId) ==
  IF mapHasKey(prev, getFileKey(filePath, staged))
  THEN withoutComment(prev, getFileKey(filePath, staged),
         mapGet(prev, getFileKey(filePath, staged)),
         SelectSeq(mapGet(prev, getFileKey(filePath, staged)).lineComments,
                   LAMBDA c : c.id # commentId))
  ELSE prev

\* what setFileComment does with an entry that exists
withGeneralComment(prev, key, existing, text) ==
  IF text = "" /\ existing.lineComments = <<>>
  THEN mapDelete(prev, key)
  ELSE mapSetKey(prev, key, [existing EXCEPT !.generalComment = text])

\* the updater of setFileComment, applied to prev
setFileComment(prev, filePath, staged, text) ==
  IF mapHasKey(prev, getFileKey(filePath, staged))
  THEN withGeneralComment(prev, getFileKey(filePath, staged),
                          mapGet(prev, getFileKey(filePath, staged)), text)
  ELSE IF text # ""
  THEN mapSetKey(prev, getFileKey(filePath, staged),
                 fileCommentOf(filePath, staged, text, <<>>))
  ELSE prev

RECURSIVE countFrom(_, _)
countFrom(map, k) ==
  IF k > Len(map) THEN 0
  ELSE (IF map[k].value.generalComment # "" THEN 1 ELSE 0)
       + Len(map[k].value.lineComments) + countFrom(map, k + 1)

getTotalCommentCount(map) == countFrom(map, 1)

\* the decimal digits of n >= 0
RECURSIVE digits10(_)
digits10(n) ==
  IF n < 10 THEN <<Digits36[n + 1]>>
  ELSE Append(digits10(n \div 10), Digits36[(n % 10) + 1])

\* String(n)
numberString(n) == IF n < 0 THEN <<"-">> \o digits10(0 - n) ELSE digits10(n)

\* the template string startLine:side of importComments; the side is one
\* of the words old and new and is kept as one item
lineKey(c) == numberString(c.startLine) \o <<":">> \o <<c.side>>

existingLines(existing) ==
  {lineKey(existing.lineComments[i]) : i \in 1..Len(existing.lineComments)}

\* the line comments of a review entry with the ids they lack; ids are the
\* values generateId returns, and the entry takes those from offset + 1 on
processLines(lineComments, ids, offset) ==
  [j \in 1..Len(lineComments) |->
     lineCommentOf(IF lineComments[j].id # <<>> THEN lineComments[j].id[1]
                   ELSE ids[offset + j],
                   lineComments[j].startLine, lineComments[j].endLine,
                   lineComments[j].side, lineComments[j].text)]

\* the merge branch of importComments, acc holding newMap and the counters
mergeEntry(acc, key, existing, fileComment, processedLineComments, newLineComments) ==
  [map |-> mapSetKey(acc.map, key,
             [existing EXCEPT
                !.generalComment = IF fileComment.generalComment # ""
                                   THEN fileComment.generalComment
                                   ELSE existing.generalComment,
                !.lineComments = existing.lineComments \o newLineComments]),
   imported |-> acc.imported + Len(newLineComments)
                + (IF fileComment.generalComment # ""
                      /\ fileComment.generalComment # existing.generalComment
                   THEN 1 ELSE 0),
   skipped |-> acc.skipped + (Len(processedLineComments) - Len(newLineComments))]

\* the filter with the side left out of the key
notOnExistingLine(existing, processedLineComments) ==
  SelectSeq(processedLineComments,
            LAMBDA c : \A i \in 1..Len(existing.lineComments) :
                          existing.lineComments[i].startLine # c.startLine)

\* the filter of the merge branch: the comments on a line no existing one is on
notOnExisting(existing, processedLineComments) ==
  SelectSeq(processedLineComments, LAMBDA c : lineKey(c) \notin existingLines(existing))

\* one turn of the loop of importComments over the entries of the review
importEntry(acc, key, fileComment, mode, processedLineComments) ==
  IF mode = "merge" /\ mapHasKey(acc.map, key)
  THEN mergeEntry(acc, key, mapGet(acc.map, key), fileComment, processedLineComments,
                  notOnExisting(mapGet(acc.map, key), processedLineComments))
  ELSE [map |-> mapSetKey(acc.map, key,
                  fileCommentOf(fileComment.filePath, fileComment.staged,
                                fileComment.generalComment, processedLineComments)),
        imported |-> acc.imported + Len(processedLineComments)
                     + (IF fileComment.generalComment # "" THEN 1 ELSE 0),
        skipped |-> acc.skipped]

RECURSIVE importFrom(_, _, _, _, _, _)
importFrom(acc, entries, k, mode, ids, offset) ==
  IF k > Len(entries) THEN acc
  ELSE importFrom(importEntry(acc, entries[k].key, entries[k].value, mode,
                              processLines(entries[k].value.lineComments, ids, offset)),
                  entries, k + 1, mode, ids,
                  offset + Len(entries[k].value.lineComments))

\* the updater importComments hands to setComments, applied to prev: the new
\* map, and what one run of it adds to the counters imported and skipped
importUpdater(prev, reviewData, mode, ids) ==
  importFrom([map |-> IF mode = "replace" THEN <<>> ELSE prev,
              imported |-> 0, skipped |-> 0],
             reviewData, 1, mode, ids, 0)

\* importComments: the counters start at 0, every run of the updater made
\* before the return adds to them, and the counters are what is returned
countsReturned(once, invocations) ==
  [imported |-> invocations * once.imported, skipped |-> invocations * once.skipped]

\* an item of localStorage is kept as <<data>>, no item as <<>>
saveToStorage(map) == <<[version |-> STORAGE_VERSION, comments |-> map]>>

migrateComment(comment) ==
  IF "lineNumber" \in DOMAIN comment /\ "startLine" \notin DOMAIN comment
  THEN lineCommentOf(comment.id, comment.lineNumber, comment.lineNumber,
                     comment.side, comment.text)
  ELSE comment

migrateFileComment(fc) ==
  [fc EXCEPT !.lineComments = [i \in 1..Len(@) |-> migrateComment(@[i])]]

loadFromStorage(stored) ==
  IF stored = <<>> THEN <<>>
  ELSE IF stored[1].version < STORAGE_VERSION
  THEN [i \in 1..Len(stored[1].comments) |->
          [key |-> stored[1].comments[i].key,
           value |-> migrateFileComment(stored[1].comments[i].value)]]
  ELSE stored[1].comments

\* the files the comments are made on
CmFiles == {[filePath |-> <<"f">>, staged |-> TRUE]}

\* where a line comment is put: a line and a side
CmPlaces == {[startLine |-> 1, side |-> "new"]}

CmTexts == {"x"}

GeneralComments == {"", "g"}

\* the line comments of a review entry: an id is optional
ImportedLines(Places) ==
  {[id |-> <<>>, startLine |-> p.startLine, endLine |-> p.startLine,
    side |-> p.side, text |-> "x"] : p \in Places}

\* the entries of a review: a key, and the FileComment given under it
ReviewEntries(Files, Named, Places) ==
  {[key |-> getFileKey(f.filePath, f.staged),
    value |-> fileCommentOf(g.filePath, g.staged, general, lines)] :
     f \in Files, g \in Named, general \in GeneralComments,
     lines \in SeqsUpTo(ImportedLines(Places), MaxImported)}

\* reviewData.comments as Object.entries lists it: one entry a key
ReviewsOf(Entries, n) ==
  {r \in SeqsUpTo(Entries, n) :
     r # <<>> /\ \A i, j \in 1..Len(r) : r[i].key = r[j].key => i = j}

\* the total of the line comments of a review
RECURSIVE importedLinesFrom(_, _)
importedLinesFrom(reviewData, k) ==
  IF k > Len(reviewData) THEN 0
  ELSE Len(reviewData[k].value.lineComments) + importedLinesFrom(reviewData, k + 1)

\* no file of the map holds more line comments than the model lets it
WithinStored(map) == \A i \in 1..Len(map) : Len(map[i].value.lineComments) <= MaxStored

\* a call of setComments by an event handler: the handler runs once the
\* effects of the render before it have run, the map takes the value of the
\* updater, and the new map object makes the save effect run again
SetComments(next, call) ==
  /\ ~saveEffect
  /\ commentStore' = next
  /\ cmCall' = call
  /\ saveEffect' = TRUE

AddLineComment(Files, Places) ==
  \E f \in Files, p \in Places, text \in CmTexts, id \in Ids :
    /\ SetComments(addLineComment(commentStore, f.filePath, f.staged, p.startLine,
                                  p.startLine, p.side, text, id),
                   [op |-> "addLineComment"])
    /\ UNCHANGED <<localStorage, saveTimeoutRef, timers, sinceChange>>

UpdateLineComment(Files) ==
  \E f \in Files, commentId \in Ids, newText \in CmTexts :
    /\ SetComments(updateLineComment(commentStore, f.filePath, f.staged, commentId,
                                     newText),
                   [op |-> "updateLineComment"])
    /\ UNCHANGED <<localStorage, saveTimeoutRef, timers, sinceChange>>

RemoveLineComment(Files) ==
  \E f \in Files, commentId \in Ids :
    /\ SetComments(removeLineComment(commentStore, f.filePath, f.staged, commentId),
                   [op |-> "removeLineComment"])
    /\ UNCHANGED <<localStorage, saveTimeoutRef, timers, sinceChange>>

SetFileComment(Files) ==
  \E f \in Files, text \in GeneralComments :
    /\ SetComments(setFileComment(commentStore, f.filePath, f.staged, text),
                   [op |-> "setFileComment"])
    /\ UNCHANGED <<localStorage, saveTimeoutRef, timers, sinceChange>>

\* clearAllComments: the map is emptied and the stored item removed at once
ClearAllComments ==
  /\ SetComments(<<>>, [op |-> "clearAllComments"])
  /\ localStorage' = <<>>
  /\ UNCHANGED <<saveTimeoutRef, timers, sinceChange>>

RECURSIVE linesFrom(_, _)
linesFrom(map, k) ==
  IF k > Len(map) THEN 0 ELSE Len(map[k].value.lineComments) + linesFrom(map, k + 1)

\* the general comment a map holds under a key, none being the empty one
generalOf(map, key) == IF mapHasKey(map, key) THEN mapGet(map, key).generalComment ELSE ""

\* what a call of importComments added to the map, read off the map before
\* it (empty in replace mode) and the map after it: the line comments the
\* map gained, and the keys whose general comment is a new one
addedBetween(before, after) ==
  (linesFrom(after, 1) - linesFrom(before, 1))
  + Cardinality({i \in 1..Len(after) :
                   /\ after[i].value.generalComment # ""
                   /\ after[i].value.generalComment # generalOf(before, after[i].key)})

\* the line comments of the review that are not among those the map gained
droppedBetween(before, after, reviewData) ==
  importedLinesFrom(reviewData, 1) - (linesFrom(after, 1) - linesFrom(before, 1))

\* the record of a call of importComments: the counts it returned, and what
\* the map shows that it added and dropped
importCall(mode, invocations, returned, added, dropped) ==
  [op |-> "importComments", mode |-> mode, invocations |-> invocations,
   returned |-> returned, added |-> added, dropped |-> dropped]

\* importComments: React may run the updater while setComments is being
\* called or leave it to the next render, so the counters are returned after
\* no run or after one; the map of the next render is that of a run on prev
ImportedWith(reviewData, mode, invocations, kept, once) ==
  SetComments(once.map,
              importCall(mode, invocations, countsReturned(once, invocations),
                         addedBetween(kept, once.map),
                         droppedBetween(kept, once.map, reviewData)))

ImportComments(Reviews) ==
  \E reviewData \in Reviews, mode \in {"merge", "replace"}, invocations \in {0, 1} :
    \E ids \in [1..importedLinesFrom(reviewData, 1) -> Ids] :
      /\ ImportedWith(reviewData, mode, invocations,
                      IF mode = "replace" THEN <<>> ELSE commentStore,
                      importUpdater(commentStore, reviewData, mode, ids))
      /\ UNCHANGED <<localStorage, saveTimeoutRef, timers, sinceChange>>

\* clearTimeout of the id the ref holds; 0 stands for null
clearTimeout(pending, id) == {t \in pending : t.id # id}

\* the id window.setTimeout returns: one no pending timer has and the ref
\* does not hold
freshTimer(pending, ref) ==
  CHOOSE n \in 1..(Cardinality(pending) + 2) :
    /\ n # ref /\ \A t \in pending : t.id # n
    /\ \A m \in 1..(n - 1) : m = ref \/ \E t \in pending : t.id = m

\* the effect setting its timer with the one before left pending
scheduleSaveBeside(pending, ref, map) ==
  pending \cup {[id |-> freshTimer(pending, ref), comments |-> map,
                 remaining |-> SaveDelay]}

\* the save effect after a render with a new map: the cleanup of the effect
\* before it clears the timer of the ref, the effect clears it again and sets
\* a timer that saves the map of this render
scheduleSave(pending, ref, map) ==
  clearTimeout(clearTimeout(pending, ref), ref)
    \cup {[id |-> freshTimer(pending, ref), comments |-> map, remaining |-> SaveDelay]}

SaveEffect ==
  /\ saveEffect
  /\ timers' = scheduleSave(timers, saveTimeoutRef, commentStore)
  /\ saveTimeoutRef' = freshTimer(timers, saveTimeoutRef)
  /\ sinceChange' = 0
  /\ saveEffect' = FALSE
  /\ UNCHANGED <<commentStore, cmCall, localStorage>>

\* a timer that is due runs its callback: saveToStorage of the map of its render
SaveFires ==
  \E t \in timers :
    /\ t.remaining = 0
    /\ localStorage' = saveToStorage(t.comments)
    /\ timers' = timers \ {t}
    /\ UNCHANGED <<commentStore, cmCall, saveTimeoutRef, sinceChange, saveEffect>>

\* time passes while no effect and no due timer waits to run
Tick ==
  /\ ~saveEffect
  /\ sinceChange < SaveDelay
  /\ \A t \in timers : t.remaining > 0
  /\ timers' = {[t EXCEPT !.remaining = IF @ > TickMs THEN @ - TickMs ELSE 0] : t \in timers}
  /\ sinceChange' = IF sinceChange + TickMs < SaveDelay THEN sinceChange + TickMs ELSE SaveDelay
  /\ UNCHANGED <<commentStore, cmCall, localStorage, saveTimeoutRef, saveEffect>>

\* the most entries a review holds
MaxReviewFiles == 1

CmReviews == ReviewsOf(ReviewEntries(CmFiles, CmFiles, CmPlaces), MaxReviewFiles)

CallAddLineComment ==
  AddLineComment(CmFiles, CmPlaces) /\ WithinStored(commentStore') /\ UNCHANGED notComments
CallUpdateLineComment == UpdateLineComment(CmFiles) /\ UNCHANGED notComments
CallRemoveLineComment == RemoveLineComment(CmFiles) /\ UNCHANGED notComments
CallSetFileComment == SetFileComment(CmFiles) /\ UNCHANGED notComments
CallClearAllComments == ClearAllComments /\ UNCHANGED notComments
CallImportComments ==
  ImportComments(CmReviews) /\ WithinStored(commentStore') /\ UNCHANGED notComments
RunSaveEffect == SaveEffect /\ UNCHANGED notComments
TimerFires == SaveFires /\ UNCHANGED notComments
TimePasses == Tick /\ UNCHANGED notComments

NextComments ==
  \/ CallAddLineComment
  \/ CallUpdateLineComment
  \/ CallRemoveLineComment
  \/ CallSetFileComment
  \/ CallClearAllComments
  \/ CallImportComments
  \/ RunSaveEffect
  \/ TimerFires
  \/ TimePasses

SpecComments == InitHooks /\ [][NextComments]_vars

(* the updater of importComments as a function of the map it is applied to *)

\* the most line comments the file of a loaded map holds
MaxExisting == 2

\* the file the reviews name, and a file of the map beside it
ImportFiles ==
  {[filePath |-> <<"f">>, staged |-> TRUE], [filePath |-> <<"f">>, staged |-> FALSE]}

ImportPlaces == {[startLine |-> 1, side |-> "old"], [startLine |-> 1, side |-> "new"]}

\* the line comments a loaded map holds: made by addLineComment on a place
ExistingComments ==
  {lineCommentOf(1, p.startLine, p.startLine, p.side, "e") : p \in ImportPlaces}

\* the entries of the staged file in a loaded map: none of them empty
NamedEntries ==
  {[key |-> getFileKey(<<"f">>, TRUE),
    value |-> fileCommentOf(<<"f">>, TRUE, general, lines)] :
     general \in GeneralComments, lines \in SeqsUpTo(ExistingComments, MaxExisting)}
  \ {[key |-> getFileKey(<<"f">>, TRUE), value |-> fileCommentOf(<<"f">>, TRUE, "", <<>>)]}

\* the entry of the unstaged file in a loaded map
OtherEntry ==
  [key |-> getFileKey(<<"f">>, FALSE),
   value |-> fileCommentOf(<<"f">>, FALSE, "g", <<lineCommentOf(2, 1, 1, "new", "e")>>)]

\* the maps an earlier session left in localStorage
StoredMaps ==
  {<<>>, <<OtherEntry>>}
    \cup {<<e>> : e \in NamedEntries}
    \cup {<<e, OtherEntry>> : e \in NamedEntries}
    \cup {<<OtherEntry, e>> : e \in NamedEntries}

ImportReviews ==
  ReviewsOf(UNION {ReviewEntries({f}, {f}, ImportPlaces) : f \in ImportFiles},
            MaxReviewFiles)

\* useComments as it is mounted on a launch that finds an item stored
CommentsLoaded(stored) ==
  /\ localStorage = stored
  /\ commentStore = loadFromStorage(stored)
  /\ cmCall = NoCall
  /\ saveTimeoutRef = 1
  /\ timers = {[id |-> 1, comments |-> loadFromStorage(stored), remaining |-> SaveDelay]}
  /\ sinceChange = 0
  /\ saveEffect = FALSE

InitImport ==
  /\ EngineIdle({<<>>})
  /\ ApprovalMounted
  /\ NavigationMounted
  /\ GitDiffMounted
  /\ \E map \in StoredMaps : CommentsLoaded(saveToStorage(map))

\* what the calls of generateId of one run return: distinct ids, or one id
\* every time
IdRuns(n) == {[i \in 1..n |-> i + 2]} \cup {[i \in 1..n |-> id] : id \in Ids}

\* the record of a run of the updater: what it was given and what it counted
updaterCall(reviewData, mode, before, once) ==
  [op |-> "importUpdater", reviewData |-> reviewData, mode |-> mode,
   before |-> before, imported |-> once.imported, skipped |-> once.skipped]

UpdaterRan(reviewData, mode, once) ==
  /\ commentStore' = once.map
  /\ cmCall' = updaterCall(reviewData, mode, commentStore, once)

\* the updater of importComments applied to the loaded map
RunImportUpdater ==
  /\ cmCall = NoCall
  /\ \E reviewData \in ImportReviews, mode \in {"merge", "replace"} :
       \E ids \in IdRuns(importedLinesFrom(reviewData, 1)) :
         UpdaterRan(reviewData, mode, importUpdater(commentStore, reviewData, mode, ids))
  /\ UNCHANGED <<localStorage, saveTimeoutRef, timers, sinceChange, saveEffect>>
  /\ UNCHANGED notComments

NextImport == RunImportUpdater

SpecImport == InitImport /\ [][NextImport]_vars

(* ----------------------------------------------------------------------- *)
(* useCommentNavigation: the focused comment of the file shown             *)
(* ----------------------------------------------------------------------- *)

\* the most comments the file shown holds
MaxNav == 3

\* the comments handed to the hook: some of the comments 1..MaxNav, in order
NavLists ==
  {s \in SeqsUpTo(1..MaxNav, MaxNav) : \A i \in 1..(Len(s) - 1) : s[i] < s[i + 1]}

\* focusedComment, <<>> standing for null
focusedComment(index, list) ==
  IF index >= 0 /\ index < Len(list) THEN <<list[index + 1]>> ELSE <<>>

\* what the reset effect leaves in focusedIndex
resetFocus(index, length) ==
  IF length = 0 THEN -1
  ELSE IF index >= length THEN length - 1
  ELSE index

\* navigateNext with its step not held back at the last comment
navigateNextUnbounded(prev, length) ==
  IF length = 0 THEN prev
  ELSE IF prev < 0 THEN 0
  ELSE prev + 1

\* navigateNext: nothing on an empty list, else the updater applied to prev
navigateNext(prev, length) ==
  IF length = 0 THEN prev
  ELSE IF prev < 0 THEN 0
  ELSE IF prev + 1 < length - 1 THEN prev + 1 ELSE length - 1

\* navigatePrev: nothing on an empty list, else the updater applied to prev
navigatePrev(prev, length) ==
  IF length = 0 THEN prev
  ELSE IF prev < 0 THEN length - 1
  ELSE IF prev - 1 > 0 THEN prev - 1 ELSE 0

\* a call of setFocusedIndex by a handler: a new value renders the hook
\* again, and the reset effect runs for it
FocusSet(op, now) ==
  /\ focusedIndex' = now
  /\ navEffect' = (navEffect \/ now # focusedIndex)
  /\ navCall' = [op |-> op, prev |-> focusedIndex, length |-> Len(navComments),
                 now |-> now]
  /\ UNCHANGED navComments

NavigateNext == FocusSet("navigateNext", navigateNext(focusedIndex, Len(navComments)))

NavigatePrev == FocusSet("navigatePrev", navigatePrev(focusedIndex, Len(navComments)))

ClearFocus == FocusSet("clearFocus", -1)

\* the file shown or its comments change: the hook is handed another list,
\* and the reset effect runs again when the length is another
CommentsChange ==
  \E list \in NavLists :
    /\ list # navComments
    /\ navComments' = list
    /\ navEffect' = (navEffect \/ Len(list) # Len(navComments))
    /\ UNCHANGED <<focusedIndex, navCall>>

\* the reset effect; when it sets another index the hook renders again and
\* the effect runs once more
ResetEffect ==
  /\ navEffect
  /\ focusedIndex' = resetFocus(focusedIndex, Len(navComments))
  /\ navEffect' = (focusedIndex' # focusedIndex)
  /\ UNCHANGED <<navComments, navCall>>

CallNavigateNext == NavigateNext /\ UNCHANGED notNavigation
CallNavigatePrev == NavigatePrev /\ UNCHANGED notNavigation
CallClearFocus == ClearFocus /\ UNCHANGED notNavigation
NavCommentsChange == CommentsChange /\ UNCHANGED notNavigation
RunResetEffect == ResetEffect /\ UNCHANGED notNavigation

NextNavigation ==
  \/ CallNavigateNext
  \/ CallNavigatePrev
  \/ CallClearFocus
  \/ NavCommentsChange
  \/ RunResetEffect

SpecNavigation == InitHooks /\ [][NextNavigation]_vars

(* ----------------------------------------------------------------------- *)
(* useGitDiff: the repository selected and the refresh of its file list    *)
(* ----------------------------------------------------------------------- *)

\* the most calls of selectRepo, setRepo and refreshFiles the user has in flight
MaxCalls == 2

RepoPaths == {"a", "b"}

\* the file lists get_changed_files answers with
FileLists == {<<>>, <<"f">>}

gitCall(fn, path) == [fn |-> fn, path |-> path]

without(calls, i) == SubSeq(calls, 1, i - 1) \o SubSeq(calls, i + 1, Len(calls))

\* the head of setRepo and of selectRepo, up to the await of the command
SelectionStarts(fn, path) ==
  /\ Len(gitCalls) < MaxCalls
  /\ loading' = TRUE
  /\ gitError' = ""
  /\ hasLoadedFiles' = FALSE
  /\ gitCalls' = Append(gitCalls, gitCall(fn, path))
  /\ UNCHANGED <<repoPath, initialized, gitFiles, gitEffect, selected, autoRefreshes>>

SetRepo == \E path \in RepoPaths : SelectionStarts("setRepo", path)

SelectRepo == SelectionStarts("selectRepo", "")

\* the command answers with success and a path: setRepoPath(result.path),
\* which renders the hook again and runs the refresh effect only when the
\* path is another than repoPath
SelectionSucceeds(i, path) ==
  /\ repoPath' = path
  /\ gitEffect' = (gitEffect \/ path # repoPath)
  /\ loading' = FALSE
  /\ gitCalls' = without(gitCalls, i)
  /\ selected' = TRUE
  /\ autoRefreshes' = 0
  /\ UNCHANGED <<initialized, hasLoadedFiles, gitError, gitFiles>>

\* the command fails or answers without success
SelectionFails(i) ==
  /\ gitError' = "failed"
  /\ loading' = FALSE
  /\ gitCalls' = without(gitCalls, i)
  /\ UNCHANGED <<repoPath, initialized, hasLoadedFiles, gitFiles, gitEffect, selected,
                 autoRefreshes>>

\* setRepo and selectRepo after their await: set_repo answers for the path
\* it was given, select_repo for the folder the user picks
SelectionSettles ==
  \E i \in 1..Len(gitCalls) :
    /\ gitCalls[i].fn \in {"setRepo", "selectRepo"}
    /\ \/ \E path \in (IF gitCalls[i].fn = "setRepo" THEN {gitCalls[i].path} ELSE RepoPaths) :
            SelectionSucceeds(i, path)
       \/ SelectionFails(i)

\* loadSavedPath after its awaits: a saved path that set_repo accepts becomes
\* repoPath, and initialized becomes true in any case
SavedPathLoads ==
  \E i \in 1..Len(gitCalls), saved \in RepoPaths \cup {""} :
    /\ gitCalls[i].fn = "loadSavedPath"
    /\ repoPath' = IF saved # "" THEN saved ELSE repoPath
    /\ initialized' = TRUE
    /\ gitEffect' = (gitEffect \/ ~initialized \/ repoPath' # repoPath)
    /\ gitCalls' = without(gitCalls, i)
    /\ UNCHANGED <<hasLoadedFiles, loading, gitError, gitFiles, selected, autoRefreshes>>

\* the head of refreshFiles, up to its first await
RefreshStarts ==
  /\ loading' = TRUE
  /\ gitError' = ""
  /\ gitCalls' = Append(gitCalls, gitCall("refreshFiles", ""))
  /\ selected' = FALSE

\* the refresh effect, run after a render in which repoPath, initialized or
\* refreshFiles is another than before; refreshFiles never is
RefreshEffect ==
  /\ gitEffect
  /\ gitEffect' = FALSE
  /\ IF repoPath # "" /\ initialized /\ ~hasLoadedFiles
     THEN /\ hasLoadedFiles' = TRUE
          /\ RefreshStarts
          /\ autoRefreshes' = autoRefreshes + 1
          /\ UNCHANGED <<repoPath, initialized, gitFiles>>
     ELSE UNCHANGED <<repoPath, initialized, hasLoadedFiles, loading, gitError, gitFiles,
                      gitCalls, selected, autoRefreshes>>

\* refreshFiles called by the user
RefreshFiles ==
  /\ Len(gitCalls) < MaxCalls
  /\ RefreshStarts
  /\ UNCHANGED <<repoPath, initialized, hasLoadedFiles, gitFiles, gitEffect, autoRefreshes>>

\* refreshFiles after its awaits: the files are set, or the error is
RefreshSettles ==
  \E i \in 1..Len(gitCalls) :
    /\ gitCalls[i].fn = "refreshFiles"
    /\ \/ \E list \in FileLists : gitFiles' = list /\ UNCHANGED gitError
       \/ gitError' = "failed" /\ UNCHANGED gitFiles
    /\ loading' = FALSE
    /\ gitCalls' = without(gitCalls, i)
    /\ UNCHANGED <<repoPath, initialized, hasLoadedFiles, gitEffect, selected, autoRefreshes>>

CallSetRepo == SetRepo /\ UNCHANGED notGitDiff
CallSelectRepo == SelectRepo /\ UNCHANGED notGitDiff
CallRefreshFiles == RefreshFiles /\ UNCHANGED notGitDiff
SelectionAnswered == SelectionSettles /\ UNCHANGED notGitDiff
SavedPathAnswered == SavedPathLoads /\ UNCHANGED notGitDiff
RefreshAnswered == RefreshSettles /\ UNCHANGED notGitDiff
RunRefreshEffect == RefreshEffect /\ UNCHANGED notGitDiff

NextGitDiff ==
  \/ CallSetRepo
  \/ CallSelectRepo
  \/ CallRefreshFiles
  \/ SelectionAnswered
  \/ SavedPathAnswered
  \/ RefreshAnswered
  \/ RunRefreshEffect

SpecGitDiff == InitHooks /\ [][NextGitDiff]_vars

\* the backend answers every command, and React runs every effect that is
\* due; the user is free to call or not
SpecGitDiffFair ==
  /\ SpecGitDiff
  /\ WF_vars(SelectionAnswered)
  /\ WF_vars(SavedPathAnswered)
  /\ WF_vars(RefreshAnswered)
  /\ WF_vars(RunRefreshEffect)

(* ======================================================================= *)
(* Properties                                                              *)
(* ======================================================================= *)

\* the states in which changes is the edit script of (argOld, argNew)
HasScript == pc \in {"computeDiff", "unifiedDiff", "stats"}

\* the ops of the script that carry an old line, resp. a new line, in order
OldOps == SelectSeq(changes, LAMBDA c : c.type \in {"equal", "delete"})
NewOps == SelectSeq(changes, LAMBDA c : c.type \in {"equal", "insert"})

\* the 0-based indices of the ops of the script
OpIdx == 0..(Len(changes) - 1)
IsChange(i) == changes[i + 1].type # "equal"

\* the number of old, resp. new, lines the first k ops consume
consumedOld(k) == Cardinality({q \in 1..k : changes[q].type \in {"equal", "delete"}})
consumedNew(k) == Cardinality({q \in 1..k : changes[q].type \in {"equal", "insert"}})

(* ----------------------------- C1 -------------------------------------- *)

\* C1: the edit script of computeDiff(old, new) round-trips: the lines of its
\* equal and delete ops, in order, are old and carry oldIdx 0..m-1; the lines of
\* its equal and insert ops, in order, are new and carry newIdx 0..n-1.
C1_RoundTrip ==
  HasScript =>
    /\ Len(OldOps) = Len(argOld)
    /\ \A k \in 1..Len(OldOps) : OldOps[k].line = argOld[k] /\ OldOps[k].oldIdx = k - 1
    /\ Len(NewOps) = Len(argNew)
    /\ \A k \in 1..Len(NewOps) : NewOps[k].line = argNew[k] /\ NewOps[k].newIdx = k - 1

\* a script with all three kinds of op over sequences of two lines or more
C1_Witness ==
  /\ pc = "computeDiff"
  /\ Len(argOld) >= 2 /\ Len(argNew) >= 2
  /\ \A t \in {"equal", "insert", "delete"} : countType(changes, t) > 0

(* ----------------------------- C10 ------------------------------------- *)

\* the subsequence of s at the positions in P
RECURSIVE pick(_, _, _)
pick(s, P, k) ==
  IF k > Len(s) THEN <<>>
  ELSE IF k \in P THEN <<s[k]>> \o pick(s, P, k + 1)
  ELSE pick(s, P, k + 1)

\* s is a subsequence of t
RECURSIVE IsSubseq(_, _)
IsSubseq(s, t) ==
  IF s = <<>> THEN TRUE
  ELSE IF t = <<>> THEN FALSE
  ELSE IF Head(s) = Head(t) THEN IsSubseq(Tail(s), Tail(t))
  ELSE IsSubseq(s, Tail(t))

\* the length of a longest common subsequence, by enumeration
LcsLength(s, t) ==
  LET common == {P \in SUBSET (1..Len(s)) : IsSubseq(pick(s, P, 1), t)}
  IN CHOOSE n \in 0..Len(s) :
       /\ \E P \in common : Cardinality(P) = n
       /\ \A P \in common : Cardinality(P) <= n

\* C10: the edit script is minimal: it has as many equal ops as a longest common
\* subsequence of old and new has lines, so it has m + n - 2 * LCS inserts and deletes.
C10_Minimal ==
  HasScript =>
    LET lcs == LcsLength(argOld, argNew)
    IN /\ countType(changes, "equal") = lcs
       /\ countType(changes, "insert") + countType(changes, "delete")
            = Len(argOld) + Len(argNew) - 2 * lcs

\* a script in which the common subsequence is shorter than both sequences
C10_Witness ==
  /\ pc = "computeDiff"
  /\ countType(changes, "equal") >= 1
  /\ countType(changes, "insert") >= 1
  /\ countType(changes, "delete") >= 1
  /\ countType(changes, "equal") = LcsLength(argOld, argNew)

(* ----------------------------- hunks of a script ----------------------- *)

\* the states in which hunks are the hunks of the script under contextLines
HasHunks == pc = "unifiedDiff"

\* the op indices hunk h spans: the ops from the one at which the line counters
\* stand at (h.oldStart, h.newStart), one op per hunk line.  Every op advances a
\* counter, so at most one op index has given counter values.
WindowOf(h) ==
  {i \in OpIdx : \E s \in OpIdx :
     /\ 1 + consumedOld(s) = h.oldStart
     /\ 1 + consumedNew(s) = h.newStart
     /\ s <= i /\ i <= s + Len(h.lines) - 1}

ChangeIdx == {i \in OpIdx : IsChange(i)}
HunkIdx == 1..Len(hunks)

SetMax(S) == CHOOSE x \in S : \A y \in S : y <= x
SetMin(S) == CHOOSE x \in S : \A y \in S : x <= y

\* the line numbers [start, start + count - 1]
LineRange(start, count) == start..(start + count - 1)

\* the number of equal ops strictly between op indices a and b
EqualsBetween(a, b) == Cardinality({i \in OpIdx : a < i /\ i < b /\ ~IsChange(i)})

(* ----------------------------- C3 -------------------------------------- *)

\* C3: every index of a non-equal op lies in the op-index range of exactly one
\* hunk, and a script without non-equal ops has no hunk.
C3_Coverage ==
  HasHunks =>
    /\ \A i \in ChangeIdx :
         Cardinality({h \in HunkIdx : i \in WindowOf(hunks[h])}) = 1
    /\ (ChangeIdx = {} => hunks = <<>>)

\* two hunks, each holding a change
C3_Witness ==
  /\ HasHunks
  /\ Len(hunks) = 2
  /\ \A h \in HunkIdx : \E i \in ChangeIdx : i \in WindowOf(hunks[h])

(* ----------------------------- C4 -------------------------------------- *)

\* C4: consecutive hunks start strictly later on both sides, their old ranges
\* and their new ranges are disjoint, and an equal op that is in no hunk lies
\* between their op-index windows.
C4_Ordered ==
  HasHunks =>
    \A h \in HunkIdx : h + 1 \in HunkIdx =>
      LET a == hunks[h]
          b == hunks[h + 1]
      IN /\ b.oldStart > a.oldStart
         /\ b.newStart > a.newStart
         /\ LineRange(a.oldStart, a.oldCount) \cap LineRange(b.oldStart, b.oldCount) = {}
         /\ LineRange(a.newStart, a.newCount) \cap LineRange(b.newStart, b.newCount) = {}
         /\ WindowOf(a) # {} /\ WindowOf(b) # {}
         /\ SetMin(WindowOf(b)) > SetMax(WindowOf(a)) + 1
         /\ \E i \in OpIdx :
              /\ SetMax(WindowOf(a)) < i /\ i < SetMin(WindowOf(b))
              /\ ~IsChange(i)
              /\ \A g \in HunkIdx : i \notin WindowOf(hunks[g])

\* two hunks under a positive contextLines, the first with context after its change
C4_Witness ==
  /\ HasHunks
  /\ contextLines >= 1
  /\ Len(hunks) = 2
  /\ hunks[1].lines[Len(hunks[1].lines)].type = "context"
  /\ hunks[2].lines[1].type = "context"

(* ----------------------------- C5 -------------------------------------- *)

\* the changes of hunk h
ChangesIn(h) == ChangeIdx \cap WindowOf(hunks[h])

\* the number of equal ops between the last change of hunk h and the first
\* change of hunk h + 1
Separation(h) == EqualsBetween(SetMax(ChangesIn(h)), SetMin(ChangesIn(h + 1)))

SameHunk(a, b) == \E h \in HunkIdx : a \in WindowOf(hunks[h]) /\ b \in WindowOf(hunks[h])

\* C5 as stated: consecutive hunks are separated by more than 2 * contextLines + 1
\* equal ops, and two changes with 2 * contextLines + 1 or fewer equal ops
\* between them are in the same hunk.
C5_SeparationAsStated ==
  HasHunks =>
    /\ \A h \in HunkIdx : h + 1 \in HunkIdx => Separation(h) > 2 * contextLines + 1
    /\ \A a, b \in ChangeIdx :
         (a < b /\ EqualsBetween(a, b) = b - a - 1 /\ b - a - 1 <= 2 * contextLines + 1)
           => SameHunk(a, b)

\* C5 amended: consecutive hunks are separated by at least 2 * contextLines + 1
\* equal ops (more than 2 * contextLines), and two changes with 2 * contextLines
\* or fewer equal ops between them are in the same hunk.
C5_Separation ==
  HasHunks =>
    /\ \A h \in HunkIdx : h + 1 \in HunkIdx =>
         /\ ChangesIn(h) # {} /\ ChangesIn(h + 1) # {}
         /\ Separation(h) >= 2 * contextLines + 1
    /\ \A a, b \in ChangeIdx :
         (a < b /\ EqualsBetween(a, b) = b - a - 1 /\ b - a - 1 <= 2 * contextLines)
           => SameHunk(a, b)

\* two hunks exactly 2 * contextLines + 1 equal ops apart, one of which merged
\* two changes 2 * contextLines equal ops apart
C5_Witness ==
  /\ HasHunks
  /\ Len(hunks) = 2
  /\ ChangesIn(1) # {} /\ ChangesIn(2) # {}
  /\ Separation(1) = 2 * contextLines + 1
  /\ \E a, b \in ChangeIdx :
       /\ a < b /\ b - a - 1 = 2 * contextLines
       /\ EqualsBetween(a, b) = 2 * contextLines
       /\ SameHunk(a, b)

(* ----------------------------- C6 -------------------------------------- *)

\* the lines of hunk h that carry an old, resp. a new, line number
OldSide(h) == SelectSeq(h.lines, LAMBDA l : l.type \in {"context", "remove"})
NewSide(h) == SelectSeq(h.lines, LAMBDA l : l.type \in {"context", "add"})

\* C6: in every hunk of generateUnifiedDiff(old, new), oldCount and newCount count
\* the hunk's old-side and new-side lines, oldStart and newStart are 1 plus the
\* old and new lines consumed before the hunk's first op, the line numbers of
\* each side run on from the start, and the line carrying number k has the
\* content of line k of old, resp. of new.
C6_ExactLineNumbers ==
  HasHunks =>
    LET ranges == hunkRangesOf(changes, contextLines)
        oldLines == splitLines(oldContent)
        newLines == splitLines(newContent)
    IN /\ Len(hunks) = Len(ranges)
       /\ \A h \in HunkIdx :
            LET hk == hunks[h]
                olds == OldSide(hk)
                news == NewSide(hk)
            IN /\ hk.oldCount = Len(olds)
               /\ hk.newCount = Len(news)
               /\ hk.oldStart = 1 + consumedOld(ranges[h][1])
               /\ hk.newStart = 1 + consumedNew(ranges[h][1])
               /\ Len(hk.lines) = ranges[h][2] - ranges[h][1] + 1
               /\ \A k \in 1..Len(olds) :
                    /\ olds[k].oldLineNum = hk.oldStart + k - 1
                    /\ olds[k].oldLineNum \in 1..Len(oldLines)
                    /\ olds[k].content = oldLines[olds[k].oldLineNum]
               /\ \A k \in 1..Len(news) :
                    /\ news[k].newLineNum = hk.newStart + k - 1
                    /\ news[k].newLineNum \in 1..Len(newLines)
                    /\ news[k].content = newLines[news[k].newLineNum]

\* a hunk that starts after the first line on both sides, with the two sides
\* numbered differently, and holds a context, a remove and an add line
C6_Witness ==
  /\ HasHunks
  /\ \E h \in HunkIdx :
       /\ hunks[h].oldStart > 1
       /\ hunks[h].newStart > 1
       /\ hunks[h].oldStart # hunks[h].newStart
       /\ \E k \in 1..Len(hunks[h].lines) : hunks[h].lines[k].type # "context"
       /\ \E k \in 1..Len(hunks[h].lines) : hunks[h].lines[k].type = "context"

(* ----------------------------- C8 -------------------------------------- *)

\* the number of lines of a content: one more than its newlines, 0 when empty
LineCount(content) ==
  IF content = <<>> THEN 0
  ELSE 1 + Cardinality({k \in 1..Len(content) : content[k] = "\n"})

\* C8: calculateDiffStats follows the stated formula: oldLines and newLines are
\* the line counts (0 for an empty content), addedLines and removedLines the
\* numbers of insert and delete ops of the alignment, changedPercent is
\* (added + removed) / max(oldLines, newLines, 1) * 100, and isMajorRewrite holds
\* iff changedPercent > 60, or ratio > 3, or ratio < 0.33, with ratio =
\* newLines / oldLines when oldLines > 0 and ratio = newLines otherwise.
C8_StatsFormula ==
  pc = "stats" =>
    LET o == LineCount(oldContent)
        n == LineCount(newContent)
        added == countType(changes, "insert")
        removed == countType(changes, "delete")
        maxLines == IF o >= n /\ o >= 1 THEN o ELSE IF n >= 1 THEN n ELSE 1
        percentOver60 == (added + removed) * 100 > 60 * maxLines
        ratioOver3 == IF o > 0 THEN n > 3 * o ELSE n > 3
        ratioUnderThird == IF o > 0 THEN 100 * n < 33 * o ELSE 100 * n < 33
    IN /\ stats.oldLines = o
       /\ stats.newLines = n
       /\ stats.addedLines = added
       /\ stats.removedLines = removed
       /\ stats.changedPercent.den > 0
       /\ stats.changedPercent.num * maxLines = (added + removed) * 100 * stats.changedPercent.den
       /\ stats.isMajorRewrite <=> (percentOver60 \/ ratioOver3 \/ ratioUnderThird)

\* a change of exactly 60 percent, which is no major rewrite
C8_Witness ==
  /\ pc = "stats"
  /\ stats.oldLines > 0 /\ stats.newLines > 0
  /\ FracEq(stats.changedPercent, Frac(60, 1))
  /\ ~stats.isMajorRewrite

(* ----------------------------- C9 -------------------------------------- *)

\* C9: changedPercent is 0 iff old and new are identical line sequences, also
\* when one or both contents are empty, and isMajorRewrite holds whenever
\* changedPercent > 60, whatever the size ratio.
C9_ZeroIffIdentical ==
  pc = "stats" =>
    /\ FracEq(stats.changedPercent, Frac(0, 1))
         <=> splitLines(oldContent) = splitLines(newContent)
    /\ FracGt(stats.changedPercent, Frac(60, 1)) => stats.isMajorRewrite

\* contents that differ by removed lines only, and change by more than 60 percent
\* while the size ratio stays between 0.33 and 3
C9_Witness ==
  /\ pc = "stats"
  /\ stats.addedLines = 0 /\ stats.removedLines > 0
  /\ FracGt(stats.changedPercent, Frac(60, 1))
  /\ stats.oldLines > 0
  /\ 100 * stats.newLines >= 33 * stats.oldLines
  /\ stats.newLines <= 3 * stats.oldLines

(* ----------------------------- C2 -------------------------------------- *)

\* the states in which markdown is the document of (given, fileDataMap)
HasMarkdown == pc = "markdown"

\* the file data of the commented file, when the map holds it
TheData == fileDataMap[fileKey(given[1].filePath, given[1].staged)]
DataGiven == fileKey(given[1].filePath, given[1].staged) \in DOMAIN fileDataMap

\* the lines of the markdown that render the line comment with the given id
RenderingsOf(id) ==
  {i \in 1..Len(markdown) : markdown[i].k = "comment" /\ markdown[i].id = id}

\* C2: every line comment handed to generateContextMarkdown is rendered exactly
\* once in the markdown, after a hunk, under Other Comments or in a Comments
\* block, whatever the file data: missing, both contents empty, a major rewrite,
\* a change with hunks, or two identical non-empty contents.
C2_EveryCommentOnce ==
  HasMarkdown =>
    \A c \in 1..Len(given[1].lineComments) :
      Cardinality(RenderingsOf(given[1].lineComments[c].id)) = 1

(* ----------------------------- C7 -------------------------------------- *)

HasLine(text) == \E i \in 1..Len(markdown) : markdown[i] = Lit(text)

\* C7: an added file (oldContent empty, newContent not) is rendered through the
\* New File branch, and through no other branch.
C7_AddedFileIsNewFile ==
  (HasMarkdown /\ DataGiven /\ TheData.oldContent = <<>> /\ TheData.newContent # <<>>)
    => /\ HasLine("### New File")
       /\ ~HasLine("### New Content")
       /\ ~HasLine("### Content Preview")
       /\ ~HasLine("### Changes")

(* ----------------------------- C11 ------------------------------------- *)

\* C11: generateContextMarkdown leaves its inputs as they were: after the call
\* every FileComment has the lineComments it was given, in the order given, on
\* the rewrite branch, the hunk branch and the branch without file data.
C11_InputsUnchanged ==
  HasMarkdown =>
    /\ Len(comments) = Len(given)
    /\ \A f \in 1..Len(given) : comments[f].lineComments = given[f].lineComments

(* ----------------------------- C12 ------------------------------------- *)

\* C12: a second call of generateContextMarkdown in a row, on the same FileComment
\* objects and the same map, returns the markdown the first call returned.
C12_Repeatable ==
  pc = "markdownAgain" => markdownAgain = markdown

\* a second call on comments the first call has reordered, two of them rendered
C12_Witness ==
  /\ pc = "markdownAgain"
  /\ comments[1].lineComments # given[1].lineComments
  /\ Cardinality({i \in 1..Len(markdownAgain) : markdownAgain[i].k = "comment"}) >= 2

(* ----------------------------- C13 ------------------------------------- *)

\* the lines of the markdown that are hunk headers, comments, the heading of
\* the uncovered comments
HeaderIdx == {i \in 1..Len(markdown) : markdown[i].k = "hunkHeader"}
CommentIdx == {i \in 1..Len(markdown) : markdown[i].k = "comment"}
OtherIdx == {i \in 1..Len(markdown) : markdown[i] = Lit("### Other Comments")}

\* line i comes under the heading 'Other Comments'
UnderOther(i) == \E o \in OtherIdx : o < i

\* line i comes immediately after the hunk whose header is line j: no other
\* header and no heading lies between, only the hunk's lines, the fence that
\* closes them, comments and blank lines
AfterHunk(i, j) ==
  /\ j \in HeaderIdx /\ j < i
  /\ \A q \in (j + 1)..(i - 1) :
       \/ markdown[q].k \in {"hunkLine", "fenceEnd", "comment"}
       \/ markdown[q] = Lit("")

\* the startLine of lc lies in the range of its side that header hd shows
InHeaderRange(lc, hd) ==
  IF lc.side = "new" THEN lc.startLine \in LineRange(hd.newStart, hd.newCount)
  ELSE lc.startLine \in LineRange(hd.oldStart, hd.oldCount)

\* the block comment line i is in: the header it follows, or 0 under Other Comments
BlockOf(i) ==
  IF UnderOther(i) THEN 0 ELSE SetMax({j \in HeaderIdx \cup {0} : j < i})

\* C13: on the hunk branch with a hunk or more, a line comment is rendered
\* immediately after hunk h iff its startLine lies in h's range of the comment's
\* side (new: newStart..newStart+newCount-1, old: oldStart..oldStart+oldCount-1),
\* it is rendered under Other Comments iff no hunk matches, and the comments
\* after one hunk, and those under Other Comments, ascend by startLine.
C13_Anchoring ==
  (HasMarkdown /\ HeaderIdx # {}) =>
    /\ \A c \in 1..Len(given[1].lineComments) :
         LET lc == given[1].lineComments[c]
         IN /\ \A j \in HeaderIdx :
                 (\E i \in RenderingsOf(lc.id) : AfterHunk(i, j))
                   <=> InHeaderRange(lc, markdown[j])
            /\ (\E i \in RenderingsOf(lc.id) : UnderOther(i))
                 <=> (\A j \in HeaderIdx : ~InHeaderRange(lc, markdown[j]))
    /\ \A i1, i2 \in CommentIdx :
         (i1 < i2 /\ BlockOf(i1) = BlockOf(i2))
           => markdown[i1].label[2] <= markdown[i2].label[2]

\* two hunks, a comment on the old side after one of them on a line outside the
\* hunk's new range, and a comment under Other Comments
C13_Witness ==
  /\ HasMarkdown
  /\ Cardinality(HeaderIdx) = 2
  /\ \E c \in 1..Len(given[1].lineComments), j \in HeaderIdx :
       LET lc == given[1].lineComments[c]
       IN /\ lc.side = "old"
          /\ lc.startLine \notin LineRange(markdown[j].newStart, markdown[j].newCount)
          /\ \E i \in RenderingsOf(lc.id) : AfterHunk(i, j)
  /\ \E i \in CommentIdx : UnderOther(i)

\* two comments after one hunk, given in descending order of startLine
C13_WitnessOrder ==
  /\ HasMarkdown
  /\ Len(given[1].lineComments) = 2
  /\ given[1].lineComments[1].startLine > given[1].lineComments[2].startLine
  /\ \E i1, i2 \in CommentIdx : i1 < i2 /\ BlockOf(i1) = BlockOf(i2) /\ BlockOf(i1) # 0

(* ----------------------------- C14 ------------------------------------- *)

C14_WitnessOutside ==
  /\ pc = "context"
  /\ lineNum < 0
  /\ result = <<>>

(* ----------------------------- C15 ------------------------------------- *)

\* the names of a name-to-kind map, and the kind of a name in it
NamesOf(elements) == {elements[i].name : i \in 1..Len(elements)}
KindOf(elements, name) ==
  elements[CHOOSE i \in 1..Len(elements) : elements[i].name = name].type

\* the changes reported for a name
ReportsOf(name) ==
  {q \in 1..Len(structuralChanges) : structuralChanges[q].name = name}

C15_WitnessKind ==
  /\ pc = "structural"
  /\ \E name \in NamesOf(oldElements) \cap NamesOf(newElements) :
       KindOf(oldElements, name) # KindOf(newElements, name)

(* ----------------------------- C16 ------------------------------------- *)

\* the positions in the pattern list of the family of a language tag: all of
\* them for a tag that names no family
FamilyOf(tag) ==
  CASE tag \in {"typescript", "javascript"} -> 1..7
    [] tag = "rust" -> 8..12
    [] tag = "python" -> 13..14
    [] tag = "go" -> 15..17
    [] OTHER -> 1..Len(patterns)

\* some line of the content declares the name through a pattern of the family
DeclaredIn(content, name, family) ==
  \E l \in 1..Len(splitLines(content)), q \in family :
    LET m == matchPattern(trim(splitLines(content)[l]), patterns[q])
    IN m.matched /\ m.name = name

\* C16: the language tag selects the pattern family: every element extracted
\* under a known tag is declared through a pattern of the family of the tag,
\* and only an unknown tag has all the families tried.
C16_LanguageSelectsFamily ==
  pc = "structural" =>
    /\ \A name \in NamesOf(oldElements) : DeclaredIn(oldContent, name, FamilyOf(language))
    /\ \A name \in NamesOf(newElements) : DeclaredIn(newContent, name, FamilyOf(language))

(* ----------------------------- C17 ------------------------------------- *)

\* a line-count ceiling that some contents of the model exceed
LineCeiling == MdLen

\* C17: a file with more lines than the ceiling, on either side, gets the
\* degraded result: the document says 'diff too large to display' and shows
\* no hunk.
C17_DegradedAboveCeiling ==
  (/\ HasMarkdown
   /\ DataGiven
   /\ \/ Len(splitLines(TheData.oldContent)) > LineCeiling
      \/ Len(splitLines(TheData.newContent)) > LineCeiling)
    => /\ HasLine("diff too large to display")
       /\ \A i \in 1..Len(markdown) : markdown[i].k # "hunkHeader"

(* ----------------------------- C18 ------------------------------------- *)

\* the ops from index a to index b are all inserts or deletes
ChangedRun(a, b) == \A i \in a..b : IsChange(i)

\* C18: in the edit script of computeDiff, inside every run of consecutive
\* non-equal ops every delete comes before every insert.
C18_DeletesBeforeInserts ==
  HasScript =>
    \A a, b \in OpIdx :
      (a < b /\ ChangedRun(a, b) /\ changes[a + 1].type = "insert")
        => changes[b + 1].type # "delete"

\* a changed block between two context lines that removes lines and adds lines
C18_Witness ==
  /\ pc = "computeDiff"
  /\ \E a, b \in OpIdx :
       /\ a < b /\ ChangedRun(a, b)
       /\ changes[a + 1].type = "delete" /\ changes[b + 1].type = "insert"
       /\ a - 1 \in OpIdx /\ ~IsChange(a - 1)
       /\ b + 1 \in OpIdx /\ ~IsChange(b + 1)

(* ----------------------------- C19 ------------------------------------- *)

\* the rows of the summary table, the headers and the metadata lines of the
\* file sections, in the order of the document
RowsOf(md) == SelectSeq(md, LAMBDA l : l.k = "row")
HeadersOf(md) == SelectSeq(md, LAMBDA l : l.k = "header")
MetasOf(md) == SelectSeq(md, LAMBDA l : l.k = "meta")

StageOf(comment) == IF comment.staged THEN "Staged" ELSE "Unstaged"

\* C19: the document has one summary row and one file section for each
\* FileComment, in the order given, and row i and section i show the filePath
\* and the stage of FileComment i, also when the path holds a colon.
C19_RowsAndSections ==
  HasMarkdown =>
    /\ Len(RowsOf(markdown)) = Len(given)
    /\ Len(HeadersOf(markdown)) = Len(given)
    /\ Len(MetasOf(markdown)) = Len(given)
    /\ \A f \in 1..Len(given) :
         /\ RowsOf(markdown)[f].filePath = given[f].filePath
         /\ RowsOf(markdown)[f].stage = StageOf(given[f])
         /\ HeadersOf(markdown)[f].filePath = given[f].filePath
         /\ MetasOf(markdown)[f].stage = StageOf(given[f])

(* ----------------------------- C20 ------------------------------------- *)

\* the numbered lines of the preview, and the notes of the lines left out
NumberedOf(md) == SelectSeq(md, LAMBDA l : l.k = "numbered")
MoreLinesOf(md) == SelectSeq(md, LAMBDA l : l.k = "moreLines")

C20_WitnessPreview ==
  /\ HasMarkdown
  /\ Len(splitLines(newContent)) = 101
  /\ Len(NumberedOf(markdown)) = 50
  /\ MoreLinesOf(markdown) = <<[k |-> "moreLines", count |-> 51]>>

(* ----------------------------- C21 ------------------------------------- *)

\* the call made last is a check of a file that was approved before it
CheckedApproved ==
  /\ apCall.op = "checkAndUpdateApproval"
  /\ apCall.stored # <<>>
  /\ apCall.stored[1].approved
  /\ apCall.with # <<>>

\* the contents of the check are the contents the file was approved with
SameAsApproved ==
  /\ apCall.oldContent = apCall.with[1].oldContent
  /\ apCall.newContent = apCall.with[1].newContent

\* C21: a check of an approved file returns true and keeps the approval when
\* oldContent and newContent are both the same as when the file was approved,
\* and only then; otherwise it removes the approval and returns false.
C21_ContentChangeUnapproves ==
  CheckedApproved =>
    /\ apCall.returned = SameAsApproved
    /\ isApproved(approvals, apCall.filePath, apCall.staged) = SameAsApproved

(* ----------------------------- C27 ------------------------------------- *)

\* the files whose approval is in force
ApprovedNow == {approvedWith[i].key : i \in 1..Len(approvedWith)}

\* how often file is in the list
timesIn(list, file) == Cardinality({i \in 1..Len(list) : list[i] = file})

\* C27: getApprovedFiles returns the files whose approval is in force, each
\* once and no other, a path with a colon among them; isApproved is true of a
\* file and a staged flag exactly when the approval of that pair is in force.
C27_ApprovedFilesDecoded ==
  /\ apCall.op = "getApprovedFiles" =>
       /\ \A file \in ApprovedNow : timesIn(apCall.returned, file) = 1
       /\ \A i \in 1..Len(apCall.returned) : apCall.returned[i] \in ApprovedNow
  /\ apCall.op = "isApproved" =>
       apCall.returned =
         ([filePath |-> apCall.filePath, staged |-> apCall.staged] \in ApprovedNow)

\* the approved files are listed while a path with a colon is approved and a
\* path is approved staged but not unstaged
C27_Witness ==
  /\ apCall.op = "getApprovedFiles"
  /\ [filePath |-> <<"d", ":", "f">>, staged |-> TRUE] \in ApprovedNow
  /\ [filePath |-> <<"f">>, staged |-> TRUE] \in ApprovedNow
  /\ [filePath |-> <<"f">>, staged |-> FALSE] \notin ApprovedNow
  /\ Len(apCall.returned) = 2

\* isApproved is asked of the unstaged file whose staged twin is approved
C27_WitnessIndependent ==
  /\ apCall.op = "isApproved"
  /\ apCall.filePath = <<"f">>
  /\ ~apCall.staged
  /\ ~apCall.returned
  /\ [filePath |-> <<"f">>, staged |-> TRUE] \in ApprovedNow

(* ----------------------------- C22 ------------------------------------- *)

\* the call made last is a check of contents whose hash is the hash stored
\* with the approval of the file when the call was made
CheckedCurrent ==
  /\ apCall.op = "checkAndUpdateApproval"
  /\ apCall.stored # <<>>
  /\ apCall.stored[1].approved
  /\ apCall.stored[1].contentHash = hashContent(apCall.oldContent \o apCall.newContent)

\* C22: however the toggles of the user and the runs of the re-check
\* interleave, a check of contents whose hash is the one stored with the
\* approval leaves the approval in place.
C22_CurrentApprovalKept ==
  CheckedCurrent => isApproved(approvals, apCall.filePath, apCall.staged)

\* C23: after any sequence of addLineComment, updateLineComment,
\* removeLineComment, setFileComment, importComments and clearAllComments,
\* every entry of the comments map holds a line comment or a general comment
\* that is not empty, and its key is filePath + ':' + staged of its value
C23_NoEmptyEntry ==
  \A i \in 1..Len(commentStore) :
    /\ \/ commentStore[i].value.lineComments # <<>>
       \/ commentStore[i].value.generalComment # ""
    /\ commentStore[i].key
         = getFileKey(commentStore[i].value.filePath, commentStore[i].value.staged)

\* C25: the counts importComments returns are accurate when it returns,
\* whenever React runs the updater: imported is the number of line comments
\* and general comments the call added to the map, skipped the number of
\* line comments of the review it dropped
C25_CountsAccurate ==
  cmCall.op = "importComments" =>
    /\ cmCall.returned.imported = cmCall.added
    /\ cmCall.returned.skipped = cmCall.dropped

\* the same of the calls whose updater React ran before the return
C25_CountsOfEagerRun ==
  (cmCall.op = "importComments" /\ cmCall.invocations = 1) =>
    /\ cmCall.returned.imported = cmCall.added
    /\ cmCall.returned.skipped = cmCall.dropped

\* the states in which the comments have been left alone for the delay of
\* the save and no timer is left to run
SaveSettled == ~saveEffect /\ sinceChange >= SaveDelay /\ timers = {}

C26_WitnessCleared ==
  /\ SaveSettled
  /\ cmCall.op = "clearAllComments"
  /\ localStorage = saveToStorage(<<>>)

\* a change was made while the save of the change before it was pending
C26_WitnessCancelled ==
  /\ saveEffect
  /\ \E t \in timers : t.remaining > 0 /\ t.remaining < SaveDelay /\ t.comments # commentStore

\* the value a review gives under a key it names
namedIn(reviewData, key) == \E k \in 1..Len(reviewData) : reviewData[k].key = key

reviewValue(reviewData, key) ==
  reviewData[CHOOSE k \in 1..Len(reviewData) : reviewData[k].key = key].value

onSamePlace(a, b) == a.startLine = b.startLine /\ a.side = b.side

\* the stored comment c is the line comment l of a review
importedAs(c, l) ==
  /\ c.startLine = l.startLine /\ c.endLine = l.endLine
  /\ c.side = l.side /\ c.text = l.text
  /\ l.id # <<>> => c.id = l.id[1]

\* the line comments of a review entry on a place no existing comment is on
offExisting(existing, imported) ==
  SelectSeq(imported, LAMBDA l : \A i \in 1..Len(existing) : ~onSamePlace(existing[i], l))

\* now is the list existing with the comments of kept appended
appendedTo(existing, kept, now) ==
  /\ Len(now) = Len(existing) + Len(kept)
  /\ SubSeq(now, 1, Len(existing)) = existing
  /\ \A j \in 1..Len(kept) : importedAs(now[Len(existing) + j], kept[j])

\* a merge left the entries no review key names as they were and appended to
\* the line comments of the others
MergeOnlyAdds(before, after, reviewData) ==
  \A i \in 1..Len(before) :
    /\ mapHasKey(after, before[i].key)
    /\ IF namedIn(reviewData, before[i].key)
       THEN appendedTo(before[i].value.lineComments,
                       offExisting(before[i].value.lineComments,
                                   reviewValue(reviewData, before[i].key).lineComments),
                       mapGet(after, before[i].key).lineComments)
       ELSE mapGet(after, before[i].key) = before[i].value

\* the map holds the entries of the review, and nothing else
HoldsImported(after, reviewData) ==
  /\ Len(after) = Len(reviewData)
  /\ \A k \in 1..Len(reviewData) :
       /\ after[k].key = reviewData[k].key
       /\ after[k].value.filePath = reviewData[k].value.filePath
       /\ after[k].value.staged = reviewData[k].value.staged
       /\ after[k].value.generalComment = reviewData[k].value.generalComment
       /\ appendedTo(<<>>, reviewData[k].value.lineComments, after[k].value.lineComments)

\* C24: importComments in merge mode only adds: under a key the map holds,
\* the existing line comments stay as they are and in their order at the
\* head of the list, the imported line comments on the line and side of an
\* existing one are skipped and all others appended, and the entries of keys
\* the review does not name are untouched; in replace mode the map holds
\* the entries of the review and no other
C24_MergeAddsReplaceReplaces ==
  cmCall.op = "importUpdater" =>
    IF cmCall.mode = "merge"
    THEN MergeOnlyAdds(cmCall.before, commentStore, cmCall.reviewData)
    ELSE HoldsImported(commentStore, cmCall.reviewData)

\* a merge into a map of two files: one comment of the review was skipped,
\* one appended behind two existing ones, the other file was not named
C24_Witness ==
  /\ cmCall.op = "importUpdater" /\ cmCall.mode = "merge"
  /\ Len(cmCall.before) = 2
  /\ cmCall.skipped = 1 /\ cmCall.imported >= 1
  /\ \E i \in 1..2 :
       /\ namedIn(cmCall.reviewData, cmCall.before[i].key)
       /\ Len(cmCall.before[i].value.lineComments) = 2
       /\ Len(commentStore[i].value.lineComments) = 3

\* a replace of a map that held a file the review does not name
C24_WitnessReplace ==
  /\ cmCall.op = "importUpdater" /\ cmCall.mode = "replace"
  /\ \E i \in 1..Len(cmCall.before) : ~namedIn(cmCall.reviewData, cmCall.before[i].key)
  /\ Len(commentStore) = 1

\* the index is no focus or the index of a comment of the list
ValidFocus(index, length) == index = -1 \/ (index >= 0 /\ index <= length - 1)

\* C28: once the reset effect has run, focusedIndex is -1 or an index of
\* the list and focusedComment is null or the comment at focusedIndex;
\* navigateNext goes from no focus to index 0 and otherwise one on, never
\* past the last comment; navigatePrev goes from no focus to the last
\* comment and otherwise one back, never below 0; on an empty list both
\* do nothing
C28_FocusValid ==
  /\ ~navEffect =>
       /\ ValidFocus(focusedIndex, Len(navComments))
       /\ focusedComment(focusedIndex, navComments)
            = IF focusedIndex = -1 THEN <<>> ELSE <<navComments[focusedIndex + 1]>>
  /\ (navCall.op \in {"navigateNext", "navigatePrev"} /\ navCall.length = 0) =>
       navCall.now = navCall.prev
  /\ (navCall.op = "navigateNext" /\ navCall.length > 0) =>
       /\ navCall.now <= navCall.length - 1
       /\ navCall.prev < 0 => navCall.now = 0
       /\ (navCall.prev >= 0 /\ navCall.prev < navCall.length - 1) =>
            navCall.now = navCall.prev + 1
       /\ navCall.prev = navCall.length - 1 => navCall.now = navCall.prev
  /\ (navCall.op = "navigatePrev" /\ navCall.length > 0) =>
       /\ navCall.now >= 0
       /\ navCall.prev < 0 => navCall.now = navCall.length - 1
       /\ navCall.prev > 0 => navCall.now = navCall.prev - 1
       /\ navCall.prev = 0 => navCall.now = 0

\* navigateNext was called on the last of several comments, and the reset
\* effect has run
C28_Witness ==
  /\ ~navEffect
  /\ navCall.op = "navigateNext"
  /\ navCall.length > 1 /\ navCall.prev = navCall.length - 1
  /\ focusedIndex = navCall.now
  /\ focusedComment(focusedIndex, navComments) # <<>>

\* the list became shorter than the focus was far, and the reset effect has
\* moved the focus to the last comment
C28_WitnessShrunk ==
  /\ ~navEffect
  /\ navCall.op \in {"navigateNext", "navigatePrev"}
  /\ navCall.now > focusedIndex
  /\ focusedIndex = Len(navComments) - 1
  /\ focusedIndex >= 0

\* navigatePrev was called from no focus on several comments
C28_WitnessPrev ==
  /\ navCall.op = "navigatePrev" /\ navCall.prev < 0 /\ navCall.length > 1
  /\ focusedIndex = navCall.length - 1

\* C29: every successful selectRepo or setRepo is followed in the end by a
\* call of refreshFiles, also when the path selected is the repoPath of
\* before
C29_SelectionRefreshed == selected ~> ~selected

\* the refresh effect calls refreshFiles at most once a successful selection
C29_RefreshedOnce == autoRefreshes <= 1

====
